---- MODULE Spec2Model ----
(***************************************************************************)
(* SCRIBE: context assembly, prompt compilation, tokenization with label   *)
(* masking, and decoding of generated tables (final_api.py,                *)
(* final_training.py).                                                     *)
(*                                                                         *)
(* Text is a sequence of one-character strings, so that splitting,         *)
(* stripping, joining and searching are computed and not assumed.          *)
(***************************************************************************)
EXTENDS Integers, Sequences, FiniteSets, TLC

VARIABLES
    \* ---- context assembler (final_api.py, one /generate request) ----
    frontend_context,   \* the caller's context: a sequence of <<key, value>>
    rng,                \* state of the process-wide random source
    ctx_pc,             \* "off" | "idle" | "done"
    target_field,       \* argument of the last call
    complexity,         \* argument of the last call
    context_parts,      \* blocks appended by the call
    used_fields,        \* identifiers appended by the call
    \* ---- prompt compiler (inference) and prompt rendering (training) ----
    task,               \* task identifier of the request
    prompt_context,     \* context text of the request
    user_content,       \* messages[0]['content'] of the training record
    api_prompt,         \* build_prompt_identical_to_training's result
    training_prompt,    \* preprocess_example_fast's prompt
    prompt_pc,          \* {"off"} | the renderers already run
    \* ---- tokenization and label masking (final_training.py) ----
    config,             \* ModelConfig: the three token budgets
    bos_token,          \* [tokenizer.bos_token_id], or [] when it is None
    eos_token,          \* [tokenizer.eos_token_id], or [] when it is None
    prompt_tokens,      \* the tokens of the prompt text, untruncated
    response_tokens,    \* the tokens of the response text, untruncated
    input_ids,          \* the example produced
    attention_mask,
    labels,
    tok_pc,             \* "off" | "idle" | "done"
    inference_ids,      \* inputs['input_ids'] of ModelManager.generate
    inf_pc,             \* "off" | "idle" | "done"
    \* ---- response decoder (final_api.py) ----
    request_field,      \* request.field, the table type of the decoder
    raw_response,       \* the generated text handed to the decoder
    source_rows,        \* the rows raw_response was formatted from, if any
    parsed_response,    \* the decoded rows, or the text left as it is
    raised,             \* an exception left the decoder
    status,             \* HTTP status of /generate, 0 before the response
    dec_pc,             \* "off" | "idle" | "decoded" | "responded"
    \* ---- business-day calculation (final_api.py) ----
    days_start,         \* first argument
    days_end,           \* second argument
    days_result,        \* the result
    days_pc,            \* "off" | "idle" | "done"
    \* ---- numeric extraction (final_api.py) ----
    num_text,           \* the argument of extract_number
    num_result,         \* its result
    num_pc,             \* "off" | "idle" | "done"
    \* ---- two calls of the context assembler compared ----
    previous,           \* the minimal call that ended last: target, result
    \* ---- dataset loading (final_training.py) ----
    file_lines,         \* the lines of the file, each parsed or unparsable
    lines_read,         \* how many lines the loop has taken
    dataset,            \* data: the entries kept so far, the list returned
    stats,              \* self.stats: valid, invalid, error
    load_pc,            \* "off" | "reading" | "returned"
    \* ---- marker extraction of ModelManager.generate (final_api.py) ----
    gen_response,       \* response: the decoded text the model generated
    gen_content,        \* content: the text generate returns
    gen_pc,             \* "off" | "idle" | "returned"
    \* ---- severity mappers (final_api.py) ----
    sev_mapper,         \* which of the three mappers is called
    sev_text,           \* its argument
    sev_result,         \* its result
    sev_again,          \* the result of the mapper applied to its result
    sev_pc,             \* "off" | "idle" | "mapped" | "remapped"
    \* ---- batch padding (final_training.py) ----
    features,           \* the examples of the batch
    pad_to_multiple_of, \* self.pad_to_multiple_of
    pad_token_id,       \* self.tokenizer.pad_token_id
    batch,              \* the lists the tensors are built from
    col_pc,             \* "off" | "idle" | "done"
    \* ---- preprocessing passes (final_training.py) ----
    dataset_sizes,      \* len(train_dataset), len(val_dataset)
    batch_size,         \* batch_size of Dataset.map
    processed,          \* self.stats[processed], the shared counter
    next_start,         \* position of the next batch map hands out
    running,            \* the executions of preprocess_function under way
    assigned,           \* example_idx given to each position of the dataset
    diagnosed,          \* positions whose example got the verbose log
    pass_pc,            \* "off" | "loaded" | "train" | "between" | ...
    \* ---- model manager and endpoints (final_api.py) ----
    is_loaded,          \* model_manager.is_loaded
    tokenizer_set,      \* model_manager.tokenizer is not None
    model_set,          \* model_manager.model is not None
    served,             \* requests answered so far
    api_response,       \* the last answer and what the request did
    api_pc              \* "off" | "init" | "serving"

ctxVars == <<frontend_context, rng, ctx_pc, target_field, complexity,
             context_parts, used_fields>>

promptVars == <<task, prompt_context, user_content, api_prompt,
                training_prompt, prompt_pc>>

tokVars == <<config, bos_token, eos_token, prompt_tokens, response_tokens,
             input_ids, attention_mask, labels, tok_pc, inference_ids,
             inf_pc>>

decVars == <<request_field, raw_response, source_rows, parsed_response, raised,
             status, dec_pc>>

daysVars == <<days_start, days_end, days_result, days_pc>>

numVars == <<num_text, num_result, num_pc>>

repVars == <<previous>>

loadVars == <<file_lines, lines_read, dataset, stats, load_pc>>

genVars == <<gen_response, gen_content, gen_pc>>

sevVars == <<sev_mapper, sev_text, sev_result, sev_again, sev_pc>>

colVars == <<features, pad_to_multiple_of, pad_token_id, batch, col_pc>>

passVars == <<dataset_sizes, batch_size, processed, next_start, running,
              assigned, diagnosed, pass_pc>>

apiVars == <<is_loaded, tokenizer_set, model_set, served, api_response, api_pc>>

vars == <<ctxVars, promptVars, tokVars, decVars, daysVars, numVars, repVars,
          loadVars, genVars, sevVars, colVars, passVars, apiVars>>

\* What a component leaves alone: every other component.
notCtx == <<promptVars, tokVars, decVars, daysVars, numVars, repVars,
            loadVars, genVars, sevVars, colVars, passVars, apiVars>>
notPrompt == <<ctxVars, tokVars, decVars, daysVars, numVars, repVars,
               loadVars, genVars, sevVars, colVars, passVars, apiVars>>
notTok == <<ctxVars, promptVars, decVars, daysVars, numVars, repVars,
            loadVars, genVars, sevVars, colVars, passVars, apiVars>>
notDec == <<ctxVars, promptVars, tokVars, daysVars, numVars, repVars,
            loadVars, genVars, sevVars, colVars, passVars, apiVars>>
notDays == <<ctxVars, promptVars, tokVars, decVars, numVars, repVars,
             loadVars, genVars, sevVars, colVars, passVars, apiVars>>
notNumber == <<ctxVars, promptVars, tokVars, decVars, daysVars, repVars,
               loadVars, genVars, sevVars, colVars, passVars, apiVars>>
notRepeat == <<ctxVars, promptVars, tokVars, decVars, daysVars, numVars,
               loadVars, genVars, sevVars, colVars, passVars, apiVars>>
notLoad == <<ctxVars, promptVars, tokVars, decVars, daysVars, numVars,
             repVars, genVars, sevVars, colVars, passVars, apiVars>>
notGenerate == <<ctxVars, promptVars, tokVars, decVars, daysVars, numVars,
                 repVars, loadVars, sevVars, colVars, passVars, apiVars>>
notSeverity == <<ctxVars, promptVars, tokVars, decVars, daysVars, numVars,
                 repVars, loadVars, genVars, colVars, passVars, apiVars>>
notCollate == <<ctxVars, promptVars, tokVars, decVars, daysVars, numVars,
                repVars, loadVars, genVars, sevVars, passVars, apiVars>>
notPreprocessing == <<ctxVars, promptVars, tokVars, decVars, daysVars,
                      numVars, repVars, loadVars, genVars, sevVars, colVars,
                      apiVars>>
notApi == <<ctxVars, promptVars, tokVars, decVars, daysVars, numVars,
            repVars, loadVars, genVars, sevVars, colVars, passVars>>

(***************************************************************************)
(* Bounds of the model.                                                    *)
(***************************************************************************)
MaxCtxKeys == 3
RngStates == 23
\* Lines of a generated text.
MaxLines == 2
\* Days after 2024-01-01 that the sample dates cover.
MaxSpan == 7
\* Characters of an argument of extract_number.
MaxNumLen == 4
\* Lines of a dataset file.
MaxFileLines == 2

(***************************************************************************)
(* Sequences and text.                                                     *)
(***************************************************************************)
Min(a, b) == IF a < b THEN a ELSE b
Max(a, b) == IF a > b THEN a ELSE b

Range(s) == { s[i] : i \in DOMAIN s }
Contains(s, x) == \E i \in DOMAIN s : s[i] = x

\* s[:n]
Take(s, n) == SubSeq(s, 1, Min(n, Len(s)))
\* s[n:]  (n counted from 0)
Drop(s, n) == SubSeq(s, n + 1, Len(s))

\* sep.join(parts)
RECURSIVE Join(_, _)
Join(parts, sep) ==
    IF parts = <<>> THEN <<>>
    ELSE IF Len(parts) = 1 THEN parts[1]
    ELSE parts[1] \o sep \o Join(Tail(parts), sep)

DigitChars == <<"0","1","2","3","4","5","6","7","8","9">>

\* str(n) for an int n
RECURSIVE NatText(_)
NatText(n) ==
    IF n < 10 THEN <<DigitChars[n + 1]>>
    ELSE NatText(n \div 10) \o <<DigitChars[(n % 10) + 1]>>

IntText(n) == IF n < 0 THEN <<"-">> \o NatText(0 - n) ELSE NatText(n)

(***************************************************************************)
(* Python values held by a context or by a decoded row.  A float holds     *)
(* num / 12.                                                               *)
(***************************************************************************)
StrV(s)    == [kind |-> "str",   s |-> s,    num |-> 0, rows |-> <<>>]
IntV(n)    == [kind |-> "int",   s |-> <<>>, num |-> n, rows |-> <<>>]
FloatV(n)  == [kind |-> "float", s |-> <<>>, num |-> n, rows |-> <<>>]
ListV(rs)  == [kind |-> "list",  s |-> <<>>, num |-> 0, rows |-> rs]

\* bool(v)
Truthy(v) ==
    CASE v.kind = "str"   -> v.s # <<>>
      [] v.kind = "int"   -> v.num # 0
      [] v.kind = "float" -> v.num # 0
      [] v.kind = "list"  -> v.rows # <<>>

\* str(v), for the strings and ints the contexts of this model hold
ValueText(v) ==
    CASE v.kind = "str" -> v.s
      [] v.kind = "int" -> IntText(v.num)

(***************************************************************************)
(* Field schema registry.                                                  *)
(***************************************************************************)
ALWAYS_INCLUDED ==
    <<"client", "secteur", "typeProjet", "complexite", "libelle", "annee">>

FIELD_GENERATION_ORDER ==
  << "contexte_proj", "besoin", "objectifs", "perimetre",
     "horsPerimetre", "contraintes", "risques", "descriptionSolution",
     "architecture", "composantsDimensionnement", "phases", "jalons",
     "livrables", "conditionsHorsCrash", "conditionsCrashSite", "resilienceApplicative",
     "praPlanDegrade", "sauvegardes", "administrationSupervision", "impactCO2",
     "modalitesPartage", "coutsConstruction", "coutsFonctionnement" >>

RELEVANT_CONTEXT ==
     "contexte_proj" :> <<"besoin", "objectifs">>
  @@ "besoin" :> <<"contexte_proj", "objectifs", "perimetre">>
  @@ "objectifs" :> <<"contexte_proj", "besoin", "perimetre">>
  @@ "perimetre" :> <<"contexte_proj", "besoin", "objectifs", "horsPerimetre">>
  @@ "horsPerimetre" :> <<"perimetre", "contexte_proj">>
  @@ "descriptionSolution" :> <<"besoin", "objectifs", "architecture">>
  @@ "architecture" :> <<"descriptionSolution", "besoin", "composantsDimensionnement">>
  @@ "composantsDimensionnement" :> <<"architecture", "perimetre", "plageService">>
  @@ "conditionsHorsCrash" :> <<"architecture", "plageService", "resilienceApplicative">>
  @@ "conditionsCrashSite" :> <<"conditionsHorsCrash", "dicp", "dima", "pdma">>
  @@ "resilienceApplicative" :> <<"architecture", "conditionsHorsCrash", "praPlanDegrade">>
  @@ "praPlanDegrade" :> <<"resilienceApplicative", "dicp", "dima">>
  @@ "sauvegardes" :> <<"pdma", "rgpd", "administrationSupervision">>
  @@ "administrationSupervision" :> <<"plageService", "tauxContingence">>
  @@ "impactCO2" :> <<"composantsDimensionnement", "architecture">>
  @@ "modalitesPartage" :> <<"rgpd", "psee", "lienDocumentation">>
  @@ "contraintes" :> <<"contexte_proj", "besoin", "complexite">>
  @@ "risques" :> <<"contraintes", "contexte_proj", "objectifs">>
  @@ "phases" :> <<"perimetre", "objectifs", "complexite">>
  @@ "livrables" :> <<"phases", "objectifs", "perimetre">>
  @@ "jalons" :> <<"phases", "livrables", "objectifs">>
  @@ "coutsConstruction" :> <<"phases", "perimetre", "complexite">>
  @@ "coutsFonctionnement" :> <<"coutsConstruction", "architecture", "administrationSupervision">>

TABLE_FIELDS ==
     "contraintes" :> <<"type", "description", "criticité", "mitigation">>
  @@ "risques" :> <<"risque", "probabilité", "impact", "planActions", "responsable">>
  @@ "phases" :> <<"phase", "description", "dateDébut", "dateFin", "équipes">>
  @@ "livrables" :> <<"nom", "description", "date", "responsable">>
  @@ "jalons" :> <<"nom", "type", "date", "critères">>
  @@ "coutsConstruction" :> <<"profil", "nombre_jh", "tjm", "total", "code">>
  @@ "coutsFonctionnement" :> <<"poste", "quantite", "coutUnitaire", "total", "code">>

\* f'col{i}'
ColKey(i) == <<"col0", "col1", "col2", "col3", "col4", "col5", "col6">>[i + 1]

\* the characters of a field identifier
FieldText(f) ==
  CASE f = "client" -> <<"c","l","i","e","n","t">>
    [] f = "secteur" -> <<"s","e","c","t","e","u","r">>
    [] f = "typeProjet" -> <<"t","y","p","e","P","r","o","j","e","t">>
    [] f = "complexite" -> <<"c","o","m","p","l","e","x","i","t","e">>
    [] f = "libelle" -> <<"l","i","b","e","l","l","e">>
    [] f = "annee" -> <<"a","n","n","e","e">>
    [] f = "contexte_proj" -> <<"c","o","n","t","e","x","t","e","_","p","r","o","j">>
    [] f = "besoin" -> <<"b","e","s","o","i","n">>
    [] f = "objectifs" -> <<"o","b","j","e","c","t","i","f","s">>
    [] f = "perimetre" -> <<"p","e","r","i","m","e","t","r","e">>
    [] f = "horsPerimetre" -> <<"h","o","r","s","P","e","r","i","m","e","t","r","e">>
    [] f = "contraintes" -> <<"c","o","n","t","r","a","i","n","t","e","s">>
    [] f = "risques" -> <<"r","i","s","q","u","e","s">>
    [] f = "descriptionSolution" -> <<"d","e","s","c","r","i","p","t","i","o","n","S","o","l","u","t","i","o","n">>
    [] f = "architecture" -> <<"a","r","c","h","i","t","e","c","t","u","r","e">>
    [] f = "composantsDimensionnement" -> <<"c","o","m","p","o","s","a","n","t","s","D","i","m","e","n","s","i","o","n","n","e","m","e","n","t">>
    [] f = "phases" -> <<"p","h","a","s","e","s">>
    [] f = "jalons" -> <<"j","a","l","o","n","s">>
    [] f = "livrables" -> <<"l","i","v","r","a","b","l","e","s">>
    [] f = "conditionsHorsCrash" -> <<"c","o","n","d","i","t","i","o","n","s","H","o","r","s","C","r","a","s","h">>
    [] f = "conditionsCrashSite" -> <<"c","o","n","d","i","t","i","o","n","s","C","r","a","s","h","S","i","t","e">>
    [] f = "resilienceApplicative" -> <<"r","e","s","i","l","i","e","n","c","e","A","p","p","l","i","c","a","t","i","v","e">>
    [] f = "praPlanDegrade" -> <<"p","r","a","P","l","a","n","D","e","g","r","a","d","e">>
    [] f = "sauvegardes" -> <<"s","a","u","v","e","g","a","r","d","e","s">>
    [] f = "administrationSupervision" -> <<"a","d","m","i","n","i","s","t","r","a","t","i","o","n","S","u","p","e","r","v","i","s","i","o","n">>
    [] f = "impactCO2" -> <<"i","m","p","a","c","t","C","O","2">>
    [] f = "modalitesPartage" -> <<"m","o","d","a","l","i","t","e","s","P","a","r","t","a","g","e">>
    [] f = "coutsConstruction" -> <<"c","o","u","t","s","C","o","n","s","t","r","u","c","t","i","o","n">>
    [] f = "coutsFonctionnement" -> <<"c","o","u","t","s","F","o","n","c","t","i","o","n","n","e","m","e","n","t">>
    [] f = "plageService" -> <<"p","l","a","g","e","S","e","r","v","i","c","e">>
    [] f = "dicp" -> <<"d","i","c","p">>
    [] f = "dima" -> <<"d","i","m","a">>
    [] f = "pdma" -> <<"p","d","m","a">>
    [] f = "rgpd" -> <<"r","g","p","d">>
    [] f = "tauxContingence" -> <<"t","a","u","x","C","o","n","t","i","n","g","e","n","c","e">>
    [] f = "psee" -> <<"p","s","e","e">>
    [] f = "lienDocumentation" -> <<"l","i","e","n","D","o","c","u","m","e","n","t","a","t","i","o","n">>

(***************************************************************************)
(* Context assembler.                                                      *)
(***************************************************************************)

\* One row as a line: the schema's columns, item.get(f'col{i}', '').
FormatRow(item, columns) ==
    Join([i \in 1..Len(columns) |->
            IF ColKey(i - 1) \in DOMAIN item
            THEN ValueText(item[ColKey(i - 1)]) ELSE <<>>],
         <<"|">>)

format_table_for_context(data, field_name) ==
    IF data = <<>> THEN <<>>
    ELSE LET columns == IF field_name \in DOMAIN TABLE_FIELDS
                        THEN TABLE_FIELDS[field_name] ELSE <<>>
         IN  Join([r \in 1..Len(data) |-> FormatRow(data[r], columns)],
                  <<"\n">>)

\* mapping.get(key, key)
FrontendKey(key) ==
    CASE key = "sector"       -> "secteur"
      [] key = "project_type" -> "typeProjet"
      [] key = "complexity"   -> "complexite"
      [] key = "contexte"     -> "contexte_proj"
      [] key = "lots"         -> "phases"
      [] OTHER                -> key

\* The new dict: items in the caller's order, a later item overwriting an
\* earlier one that maps to the same key.
RECURSIVE MapItems(_, _)
MapItems(items, acc) ==
    IF items = <<>> THEN acc
    ELSE LET k == FrontendKey(items[1][1])
             rest == [x \in DOMAIN acc \ {k} |-> acc[x]]
         IN  MapItems(Tail(items), rest @@ (k :> items[1][2]))

map_frontend_to_model_fields(items) == MapItems(items, <<>>)

IsTable(context, field) ==
    field \in DOMAIN TABLE_FIELDS /\ context[field].kind = "list"

ScalarBlock(context, field) ==
    FieldText(field) \o <<":", " ">> \o ValueText(context[field])

TableBlock(field, value) == FieldText(field) \o <<":", "\n">> \o value

\* Lines 320-327: the body run for an always-included field.
AddAlways(acc, context, field) ==
    IF field \in DOMAIN context /\ Truthy(context[field])
    THEN LET value == format_table_for_context(context[field].rows, field)
             parts ==
                IF IsTable(context, field)
                THEN IF value # <<>>
                     THEN Append(acc.parts, TableBlock(field, value))
                     ELSE acc.parts
                ELSE Append(acc.parts, ScalarBlock(context, field))
         IN  [parts |-> parts, used |-> Append(acc.used, field)]
    ELSE acc

\* A body that marks the field used even when its table gave no block.
AddBlockMarkingAlways(acc, context, field) ==
    IF IsTable(context, field)
    THEN LET value == format_table_for_context(context[field].rows, field)
         IN  IF value # <<>>
             THEN [parts |-> Append(acc.parts, TableBlock(field, value)),
                   used  |-> Append(acc.used, field)]
             ELSE [parts |-> acc.parts, used |-> Append(acc.used, field)]
    ELSE [parts |-> Append(acc.parts, ScalarBlock(context, field)),
          used  |-> Append(acc.used, field)]

\* Lines 335-342 (and 348-355, 361-368, 374-381, 387-394): the body run for
\* a field known to be in the context.
AddBlock(acc, context, field) ==
    IF IsTable(context, field)
    THEN LET value == format_table_for_context(context[field].rows, field)
         IN  IF value # <<>>
             THEN [parts |-> Append(acc.parts, TableBlock(field, value)),
                   used  |-> Append(acc.used, field)]
             ELSE acc
    ELSE [parts |-> Append(acc.parts, ScalarBlock(context, field)),
          used  |-> Append(acc.used, field)]

RECURSIVE AlwaysLoop(_, _, _)
AlwaysLoop(acc, context, fields) ==
    IF fields = <<>> THEN acc
    ELSE AlwaysLoop(AddAlways(acc, context, fields[1]), context, Tail(fields))

RECURSIVE RelevantLoop(_, _, _)
RelevantLoop(acc, context, fields) ==
    IF fields = <<>> THEN acc
    ELSE LET f == fields[1]
             nxt == IF f \in DOMAIN context /\ ~Contains(acc.used, f)
                    THEN AddBlock(acc, context, f) ELSE acc
         IN  RelevantLoop(nxt, context, Tail(fields))

RECURSIVE RandomLoop(_, _, _)
RandomLoop(acc, context, fields) ==
    IF fields = <<>> THEN acc
    ELSE LET f == fields[1]
             nxt == IF f \in DOMAIN context
                    THEN AddBlock(acc, context, f) ELSE acc
         IN  RandomLoop(nxt, context, Tail(fields))

\* RELEVANT_CONTEXT.get(target_field, [])
RelevantOf(target) ==
    IF target \in DOMAIN RELEVANT_CONTEXT THEN RELEVANT_CONTEXT[target]
    ELSE <<>>

\* A prefix of three for every strategy.
RelevantPrefixOfThree(cx) == 3

\* The prefix length of the ranked relevant list, per strategy.
RelevantPrefix(cx) ==
    CASE cx = "minimal" -> 2
      [] cx \in {"medium", "related"} -> 3
      [] OTHER -> 2

\* Every field of the generation order, the target too.
AvailableFieldsWithTarget(target) == FIELD_GENERATION_ORDER

\* [f for f in FIELD_GENERATION_ORDER if f != target_field]
AvailableFields(target) ==
    SelectSeq(FIELD_GENERATION_ORDER, LAMBDA f : f # target)

\* [f for f in available_fields if f not in relevant and f not in used_fields]
RandomFields(target, relevant, used) ==
    SelectSeq(AvailableFields(target),
              LAMBDA f : ~Contains(relevant, f) /\ ~Contains(used, f))

\* The state after lines 316-327 and the relevant loop of the strategy.
Deterministic(target, context, cx) ==
    LET start == AlwaysLoop([parts |-> <<>>, used |-> <<>>], context,
                            ALWAYS_INCLUDED)
        relevant == Take(RelevantOf(target), RelevantPrefix(cx))
    IN  RelevantLoop(start, context, relevant)

\* random.choice: an index drawn from the state of the random source.
RandBelow(r, n) == (r * n) \div RngStates
RngNext(r) == (r + 1) % RngStates

\* The sequences without repetition over a set, up to a length.
RECURSIVE Arrangements(_, _)
Arrangements(S, n) ==
    IF n = 0 THEN { <<>> }
    ELSE LET shorter == Arrangements(S, n - 1)
         IN  shorter \cup
             UNION { { Append(q, x) : x \in S \ Range(q) } :
                     q \in { p \in shorter : Len(p) = n - 1 } }

\* random.shuffle(random_fields); random_fields[:k]: any k-prefix of any
\* order.  Only the fields present in the context matter to the loop, so
\* a prefix is given by the present fields it holds, in order; the other
\* min(k, n) - Len(q) places are taken by absent fields.
ShuffledPrefixes(random_fields, context, k) ==
    LET present == { f \in Range(random_fields) : f \in DOMAIN context }
        absent  == Range(random_fields) \ present
        m       == Min(k, Len(random_fields))
    IN  { q \in Arrangements(present, Min(m, Cardinality(present))) :
            m - Len(q) <= Cardinality(absent) }

\* A minimal strategy that adds one field drawn from the random source.
MinimalResultWithDraw(target, items) ==
    LET context  == map_frontend_to_model_fields(items)
        det      == Deterministic(target, context, "minimal")
        relevant == Take(RelevantOf(target), RelevantPrefix("minimal"))
        random_fields == RandomFields(target, relevant, det.used)
        random_field  ==
            random_fields[RandBelow(rng, Len(random_fields)) + 1]
    IN  IF random_fields # <<>> /\ random_field \in DOMAIN context
        THEN AddBlock(det, context, random_field)
        ELSE det

\* build_context_identical_to_training under "minimal": (context_parts,
\* used_fields) as a record; the random source is not read.
MinimalResult(target, items) ==
    Deterministic(target, map_frontend_to_model_fields(items), "minimal")

\* Under "medium" / "related", with the random source in state r.
MediumResult(target, items, cx, r) ==
    LET context  == map_frontend_to_model_fields(items)
        det      == Deterministic(target, context, cx)
        relevant == Take(RelevantOf(target), RelevantPrefix(cx))
        random_fields == RandomFields(target, relevant, det.used)
        random_field  ==
            random_fields[RandBelow(r, Len(random_fields)) + 1]
    IN  IF random_fields # <<>> /\ random_field \in DOMAIN context
        THEN AddBlock(det, context, random_field)
        ELSE det

\* Whether "medium" draws from the random source.
MediumDraws(target, items, cx) ==
    LET context  == map_frontend_to_model_fields(items)
        det      == Deterministic(target, context, cx)
        relevant == Take(RelevantOf(target), RelevantPrefix(cx))
    IN  RandomFields(target, relevant, det.used) # <<>>

\* Under any other strategy ("full"): one result per shuffle and per k.
FullResults(target, items, cx) ==
    LET context  == map_frontend_to_model_fields(items)
        det      == Deterministic(target, context, cx)
        relevant == Take(RelevantOf(target), RelevantPrefix(cx))
        random_fields == RandomFields(target, relevant, det.used)
    IN  UNION { { RandomLoop(det, context, q) :
                    q \in ShuffledPrefixes(random_fields, context, k) } :
                k \in 3..5 }

(***************************************************************************)
(* The requests of the model.                                              *)
(***************************************************************************)
T(s) == StrV(s)

SampleRow ==
    [k \in {"col0", "col1", "col2", "col3", "col4"} |->
        CASE k = "col0" -> T(<<"P">>)
          [] k = "col1" -> T(<<"d">>)
          [] k = "col2" -> T(<<"1">>)
          [] k = "col3" -> T(<<"2">>)
          [] k = "col4" -> T(<<"e">>)]

\* Candidate items of a caller context: caller-side and canonical names,
\* empty and zero values, tables with and without rows.
SampleItems ==
    << <<"client", T(<<"X">>)>>,
       <<"client", T(<<>>)>>,
       <<"sector", T(<<"S">>)>>,
       <<"secteur", T(<<"T">>)>>,
       <<"complexite", T(<<"c">>)>>,
       <<"annee", IntV(0)>>,
       <<"annee", IntV(2025)>>,
       <<"contexte", T(<<"t">>)>>,
       <<"besoin", T(<<"b">>)>>,
       <<"objectifs", T(<<>>)>>,
       <<"perimetre", T(<<"p">>)>>,
       <<"phases", ListV(<<SampleRow>>)>>,
       <<"phases", ListV(<<>>)>>,
       <<"lots", ListV(<<SampleRow, SampleRow>>)>>,
       <<"contraintes", T(<<"k">>)>>,
       <<"architecture", T(<<"a">>)>> >>

RECURSIVE Ascending(_)
Ascending(S) ==
    IF S = {} THEN <<>>
    ELSE LET m == CHOOSE x \in S : \A y \in S : x <= y
         IN  <<m>> \o Ascending(S \ {m})

\* A context of five fields of the generation order, none of them among
\* the first two relevant fields of jalons, budget or client.
WideContext ==
    << <<"contexte", T(<<"t">>)>>,
       <<"besoin", T(<<"b">>)>>,
       <<"perimetre", T(<<"p">>)>>,
       <<"contraintes", T(<<"k">>)>>,
       <<"architecture", T(<<"a">>)>> >>

\* The caller contexts: at most MaxCtxKeys items, one per key, and the wide
\* context.
SampleContexts ==
    { [i \in 1..Len(idx) |-> SampleItems[idx[i]]] :
        idx \in { Ascending(S) : S \in
                    { S \in SUBSET (1..Len(SampleItems)) :
                        /\ Cardinality(S) <= MaxCtxKeys
                        /\ \A a, b \in S :
                             a # b => SampleItems[a][1] # SampleItems[b][1] } } }
        \cup { WideContext }

Targets ==
    {"client", "complexite", "besoin", "contraintes", "phases", "jalons",
     "budget"}

Strategies == {"minimal", "medium", "related", "full"}

CtxOff ==
    /\ frontend_context = <<>>
    /\ rng = 0
    /\ ctx_pc = "off"
    /\ target_field = ""
    /\ complexity = ""
    /\ context_parts = <<>>
    /\ used_fields = <<>>

CtxInit ==
    /\ frontend_context \in SampleContexts
    /\ rng \in 0..(RngStates - 1)
    /\ ctx_pc = "idle"
    /\ target_field = ""
    /\ complexity = ""
    /\ context_parts = <<>>
    /\ used_fields = <<>>

\* A return after the renaming was done in the caller's mapping itself.
CtxReturnRenamedInPlace(target, cx, res) ==
    /\ ctx_pc' = "done"
    /\ target_field' = target
    /\ complexity' = cx
    /\ context_parts' = res.parts
    /\ used_fields' = res.used
    /\ frontend_context' =
          [i \in DOMAIN frontend_context |->
              <<FrontendKey(frontend_context[i][1]), frontend_context[i][2]>>]
    /\ UNCHANGED notCtx

CtxReturn(target, cx, res) ==
    /\ ctx_pc' = "done"
    /\ target_field' = target
    /\ complexity' = cx
    /\ context_parts' = res.parts
    /\ used_fields' = res.used
    /\ UNCHANGED <<frontend_context, notCtx>>

BuildMinimal ==
    /\ ctx_pc = "idle"
    /\ \E target \in Targets :
         CtxReturn(target, "minimal", MinimalResult(target, frontend_context))
    /\ UNCHANGED rng

BuildMedium ==
    /\ ctx_pc = "idle"
    /\ \E target \in Targets, cx \in {"medium", "related"} :
         /\ CtxReturn(target, cx,
                      MediumResult(target, frontend_context, cx, rng))
         /\ rng' = IF MediumDraws(target, frontend_context, cx)
                   THEN RngNext(rng) ELSE rng

BuildFull ==
    /\ ctx_pc = "idle"
    /\ \E target \in Targets :
         \E res \in FullResults(target, frontend_context, "full") :
            CtxReturn(target, "full", res)
    /\ rng' = RngNext(RngNext(rng))

\* The request ends; nothing of it is kept.
EndRequest ==
    /\ ctx_pc = "done"
    /\ ctx_pc' = "idle"
    /\ target_field' = ""
    /\ complexity' = ""
    /\ context_parts' = <<>>
    /\ used_fields' = <<>>
    /\ UNCHANGED <<frontend_context, rng, notCtx>>

CtxNext == BuildMinimal \/ BuildMedium \/ BuildFull \/ EndRequest

\* context_str
context_str == Join(context_parts, <<"\n">>)

NoDuplicates(s) == \A i, j \in DOMAIN s : i # j => s[i] # s[j]

(***************************************************************************)
(* Prompt compiler (inference) and prompt rendering (training).            *)
(***************************************************************************)
MaxTextLen == 2

TextAlphabet == {"a", " ", "\n", "<", "]"}

\* The texts of at most n characters.
RECURSIVE TextsUpTo(_)
TextsUpTo(n) ==
    IF n = 0 THEN { <<>> }
    ELSE LET shorter == TextsUpTo(n - 1)
         IN  shorter \cup { Append(t, c) : t \in shorter, c \in TextAlphabet }

\* The template with the space before the closing [/INST] left out.
build_prompt_without_space(tk, cs) ==
    <<"[","I","N","S","T","]"," ","<","T","A","S","K",">">> \o tk
    \o <<"<","/","T","A","S","K",">","\n","<","C","O","N","T","E","X","T",">","\n">>
    \o cs \o <<"\n","<","/","C","O","N","T","E","X","T",">","[","/","I","N","S","T","]">>

\* f"[INST] <TASK>{task}</TASK>\n<CONTEXT>\n{context_str}\n</CONTEXT> [/INST]"
build_prompt_identical_to_training(tk, cs) ==
    <<"[","I","N","S","T","]"," ","<","T","A","S","K",">">> \o tk
    \o <<"<","/","T","A","S","K",">","\n","<","C","O","N","T","E","X","T",">","\n">>
    \o cs \o <<"\n","<","/","C","O","N","T","E","X","T",">"," ","[","/","I","N","S","T","]">>

\* f"[INST] {user_content} [/INST]"
TrainingPrompt(uc) == <<"[","I","N","S","T","]"," ">> \o uc \o <<" ","[","/","I","N","S","T","]">>

\* The user turn written by the data-generation step for a task and a
\* context: <TASK>task</TASK>, newline, <CONTEXT>, newline, the context,
\* newline, </CONTEXT>.
UserTurn(tk, cs) ==
    <<"<","T","A","S","K",">">> \o tk \o <<"<","/","T","A","S","K",">">> \o <<"\n">>
    \o <<"<","C","O","N","T","E","X","T",">">> \o <<"\n">> \o cs \o <<"\n">>
    \o <<"<","/","C","O","N","T","E","X","T",">">>

PromptOff ==
    /\ task = <<>>
    /\ prompt_context = <<>>
    /\ user_content = <<>>
    /\ api_prompt = <<>>
    /\ training_prompt = <<>>
    /\ prompt_pc = {"off"}

PromptInit ==
    /\ task \in TextsUpTo(MaxTextLen)
    /\ prompt_context \in TextsUpTo(MaxTextLen)
    /\ user_content = UserTurn(task, prompt_context)
    /\ api_prompt = <<>>
    /\ training_prompt = <<>>
    /\ prompt_pc = {}

CompilePrompt ==
    /\ "off" \notin prompt_pc
    /\ "api" \notin prompt_pc
    /\ api_prompt' = build_prompt_identical_to_training(task, prompt_context)
    /\ prompt_pc' = prompt_pc \cup {"api"}
    /\ UNCHANGED <<task, prompt_context, user_content, training_prompt, notPrompt>>

RenderTrainingPrompt ==
    /\ "off" \notin prompt_pc
    /\ "training" \notin prompt_pc
    /\ training_prompt' = TrainingPrompt(user_content)
    /\ prompt_pc' = prompt_pc \cup {"training"}
    /\ UNCHANGED <<task, prompt_context, user_content, api_prompt, notPrompt>>

PromptNext == CompilePrompt \/ RenderTrainingPrompt

(***************************************************************************)
(* Tokenization and label masking (training).  The tokenizer is external:  *)
(* a text is given by its token sequence, and a call with truncation and   *)
(* max_length keeps the first max_length tokens.                           *)
(***************************************************************************)
MaxBudget == 2

\* ModelConfig, lines 71-73.
max_prompt_length == 1024
max_response_length == 512
max_length == 1536

ModelConfig ==
    [max_prompt_length |-> max_prompt_length,
     max_response_length |-> max_response_length,
     max_length |-> max_length]

\* Other budget configurations, the total below, at and above the sum.
SmallConfigs ==
    { [max_prompt_length |-> p, max_response_length |-> r, max_length |-> m] :
        p \in 1..MaxBudget, r \in 1..MaxBudget, m \in 1..(2 * MaxBudget + 2) }

BOS == 1
EOS == 2
IGNORE_INDEX == 0 - 100

\* The i-th token of a prompt, of a response: ids of the vocabulary, all
\* different from the two marker tokens.
PromptTokens(n) == [i \in 1..n |-> 2 * i + 1]
ResponseTokens(n) == [i \in 1..n |-> 2 * i + 2]

\* Lengths around a budget: empty, short, just below, at and above it.
LengthsAround(b) == {0, 1} \cup { n \in (b - 1)..(b + 1) : n >= 0 }

\* tokenizer(text, max_length=n, truncation=True, add_special_tokens=False)
Tokenize(tokens, n) == Take(tokens, n)

\* Lines 243-247.
InputIds(cfg, bos, eos, prompt_ids, response_ids) ==
    LET all == bos \o prompt_ids \o response_ids \o eos
    IN  IF Len(all) > cfg.max_length THEN Take(all, cfg.max_length) ELSE all

\* Labels that mask the prompt tokens and leave the beginning marker out of
\* the count.
LabelsMaskingPromptOnly(ids, prompt_length) ==
    LET lab == [i \in 1..(prompt_length - 1) |-> IGNORE_INDEX]
               \o Drop(ids, Max(prompt_length - 1, 0))
    IN  IF Len(lab) # Len(ids) THEN Take(lab, Len(ids)) ELSE lab

\* Line 254 alone, without lines 257-258.
LabelsUntrimmed(ids, prompt_length) ==
    [i \in 1..prompt_length |-> IGNORE_INDEX] \o Drop(ids, prompt_length)

\* Lines 254-258.
Labels(ids, prompt_length) ==
    LET lab == [i \in 1..prompt_length |-> IGNORE_INDEX]
               \o Drop(ids, prompt_length)
    IN  IF Len(lab) # Len(ids) THEN Take(lab, Len(ids)) ELSE lab

preprocess_example_fast(cfg, bos, eos, ptoks, rtoks) ==
    LET prompt_ids   == Tokenize(ptoks, cfg.max_prompt_length)
        response_ids == Tokenize(rtoks, cfg.max_response_length)
        ids == InputIds(cfg, bos, eos, prompt_ids, response_ids)
        prompt_length == Len(bos) + Len(prompt_ids)
    IN  [input_ids |-> ids,
         attention_mask |-> [i \in 1..Len(ids) |-> 1],
         labels |-> Labels(ids, prompt_length)]

\* max_length of the tokenizer call of ModelManager.generate, line 239
inference_max_length == 1024

\* tokenizer(prompt, truncation=True, max_length=1024): the beginning
\* marker, when the tokenizer has one, counts in the length kept.
InferenceInputs(bos, ptoks) == Take(bos \o ptoks, inference_max_length)

TokOff ==
    /\ config = ModelConfig
    /\ bos_token = <<>>
    /\ eos_token = <<>>
    /\ prompt_tokens = <<>>
    /\ response_tokens = <<>>
    /\ input_ids = <<>>
    /\ attention_mask = <<>>
    /\ labels = <<>>
    /\ tok_pc = "off"
    /\ inference_ids = <<>>
    /\ inf_pc = "off"

TokInit ==
    /\ config \in SmallConfigs \cup {ModelConfig}
    /\ bos_token \in { <<>>, <<BOS>> }
    /\ eos_token \in { <<>>, <<EOS>> }
    /\ \E n \in LengthsAround(config.max_prompt_length) :
         prompt_tokens = PromptTokens(n)
    /\ \E n \in LengthsAround(config.max_response_length) :
         response_tokens = ResponseTokens(n)
    /\ input_ids = <<>>
    /\ attention_mask = <<>>
    /\ labels = <<>>
    /\ tok_pc = "idle"
    /\ inference_ids = <<>>
    /\ inf_pc = "idle"

Preprocess ==
    /\ tok_pc = "idle"
    /\ LET ex == preprocess_example_fast(config, bos_token, eos_token,
                                         prompt_tokens, response_tokens)
       IN  /\ input_ids' = ex.input_ids
           /\ attention_mask' = ex.attention_mask
           /\ labels' = ex.labels
    /\ tok_pc' = "done"
    /\ UNCHANGED <<config, bos_token, eos_token, prompt_tokens,
                   response_tokens, inference_ids, inf_pc, notTok>>

\* ModelManager.generate, lines 235-240, on the prompt text of the example:
\* the tokenizer adds its special tokens and cuts the whole to max_length.
TokenizePrompt ==
    /\ inf_pc = "idle"
    /\ inference_ids' = InferenceInputs(bos_token, prompt_tokens)
    /\ inf_pc' = "done"
    /\ UNCHANGED <<config, bos_token, eos_token, prompt_tokens,
                   response_tokens, input_ids, attention_mask, labels,
                   tok_pc, notTok>>

TokNext == Preprocess \/ TokenizePrompt

(***************************************************************************)
(* Text operations used by the response decoder.                           *)
(***************************************************************************)

\* str.isspace for one character
IsSpace(c) == c \in {" ", "\n", "\t", "\r"}

IsDigit(c) == c \in Range(DigitChars)

DigitValue(c) == CHOOSE d \in 0..9 : DigitChars[d + 1] = c

\* s[lo..hi] for the first and the last position of a non-empty set
Between(s, at) ==
    SubSeq(s, CHOOSE i \in at : \A j \in at : i <= j,
              CHOOSE i \in at : \A j \in at : i >= j)

\* s.strip()
Strip(s) ==
    IF \A i \in 1..Len(s) : IsSpace(s[i]) THEN <<>>
    ELSE Between(s, { i \in 1..Len(s) : ~IsSpace(s[i]) })

\* The position of the k-th separator of the set at; 0 and Len(s) + 1 at
\* the ends.
CutAt(s, at, k) ==
    IF k = 0 THEN 0
    ELSE IF k > Cardinality(at) THEN Len(s) + 1
    ELSE CHOOSE i \in at : Cardinality({ j \in at : j < i }) = k - 1

SplitAt(s, at) ==
    [k \in 1..(Cardinality(at) + 1) |->
        SubSeq(s, CutAt(s, at, k - 1) + 1, CutAt(s, at, k) - 1)]

\* s.split(sep) for a one-character separator: always at least one part
Split(s, sep) == SplitAt(s, { i \in 1..Len(s) : s[i] = sep })

\* c.lower() for the letters of the model's texts
LowerChar(c) ==
    CASE c = "A" -> "a" [] c = "B" -> "b" [] c = "C" -> "c" [] c = "D" -> "d"
      [] c = "E" -> "e" [] c = "F" -> "f" [] c = "G" -> "g" [] c = "H" -> "h"
      [] c = "I" -> "i" [] c = "J" -> "j" [] c = "K" -> "k" [] c = "L" -> "l"
      [] c = "M" -> "m" [] c = "N" -> "n" [] c = "O" -> "o" [] c = "P" -> "p"
      [] c = "Q" -> "q" [] c = "R" -> "r" [] c = "S" -> "s" [] c = "T" -> "t"
      [] c = "U" -> "u" [] c = "V" -> "v" [] c = "W" -> "w" [] c = "X" -> "x"
      [] c = "Y" -> "y" [] c = "Z" -> "z" [] c = "É" -> "é" [] c = "À" -> "à"
      [] OTHER -> c

\* s.lower()
Lower(s) == [i \in 1..Len(s) |-> LowerChar(s[i])]

\* word in text
HasWord(text, word) ==
    \E i \in 1..(Len(text) - Len(word) + 1) :
        SubSeq(text, i, i + Len(word) - 1) = word

\* any(word in text for word in words)
AnyWord(text, words) == \E w \in words : HasWord(text, w)

\* s.replace(old, new) for a one-character old
RECURSIVE Replace(_, _, _)
Replace(s, old, new) ==
    IF s = <<>> THEN <<>>
    ELSE (IF s[1] = old THEN new ELSE <<s[1]>>) \o Replace(Tail(s), old, new)

\* int(digits) for a run of decimal digits
RECURSIVE DigitsValue(_)
DigitsValue(ds) ==
    IF ds = <<>> THEN 0
    ELSE 10 * DigitsValue(SubSeq(ds, 1, Len(ds) - 1)) + DigitValue(ds[Len(ds)])

AllDigits(s, i, n) ==
    /\ i >= 1
    /\ i + n - 1 <= Len(s)
    /\ \A j \in i..(i + n - 1) : IsDigit(s[j])

CharAt(s, i, c) == i >= 1 /\ i <= Len(s) /\ s[i] = c

\* s.zfill(2) for one or two digits
ZFill2(s) == IF Len(s) < 2 THEN <<"0">> \o s ELSE s

(***************************************************************************)
(* Value normalization of the decoder.                                     *)
(***************************************************************************)
W_faible == <<"f","a","i","b","l","e">>
W_bas == <<"b","a","s">>
W_low == <<"l","o","w">>
W_eleve_accent == <<"é","l","e","v","é">>
W_eleve == <<"e","l","e","v","é">>
W_haut == <<"h","a","u","t">>
W_high == <<"h","i","g","h">>
W_critique == <<"c","r","i","t","i","q","u","e">>
W_majeur == <<"m","a","j","e","u","r">>

LowWords == {W_faible, W_bas, W_low}
HighWords == {W_eleve_accent, W_eleve, W_haut, W_high}

\* map_criticality without the lower() of line 674.
map_criticalityCaseSensitive(text) ==
    LET t == Strip(text)
    IN  IF AnyWord(t, LowWords) THEN <<"F","a","i","b","l","e">>
        ELSE IF AnyWord(t, HighWords \cup {W_critique}) THEN <<"É","l","e","v","é">>
        ELSE <<"M","o","y","e","n">>

map_criticality(text) ==
    LET t == Strip(Lower(text))
    IN  IF AnyWord(t, LowWords) THEN <<"F","a","i","b","l","e">>
        ELSE IF AnyWord(t, HighWords \cup {W_critique}) THEN <<"É","l","e","v","é">>
        ELSE <<"M","o","y","e","n">>

map_probability(text) ==
    LET t == Strip(Lower(text))
    IN  IF AnyWord(t, LowWords) THEN <<"F","a","i","b","l","e">>
        ELSE IF AnyWord(t, HighWords) THEN <<"É","l","e","v","é","e">>
        ELSE <<"M","o","y","e","n","n","e">>

map_impact(text) ==
    LET t == Strip(Lower(text))
    IN  IF AnyWord(t, LowWords) THEN <<"F","a","i","b","l","e">>
        ELSE IF AnyWord(t, HighWords \cup {W_majeur}) THEN <<"É","l","e","v","é">>
        ELSE <<"M","o","y","e","n">>

\* re.search(r'(\d{4})-(\d{2})-(\d{2})', text) matches at position i
IsoDateAt(text, i) ==
    /\ AllDigits(text, i, 4)
    /\ CharAt(text, i + 4, "-")
    /\ AllDigits(text, i + 5, 2)
    /\ CharAt(text, i + 7, "-")
    /\ AllDigits(text, i + 8, 2)

\* r'(\d{1,2})/(\d{1,2})/(\d{4})' matches at position i with a day of a
\* digits and a month of b digits
SlashDateAt(text, i, a, b) ==
    /\ AllDigits(text, i, a)
    /\ CharAt(text, i + a, "/")
    /\ AllDigits(text, i + a + 1, b)
    /\ CharAt(text, i + a + b + 1, "/")
    /\ AllDigits(text, i + a + b + 2, 4)

\* m.group(0) of the first pattern
IsoDateFrom(text, i) == SubSeq(text, i, i + 9)

\* The second pattern's groups at position i, zero-filled; greedy: two
\* digits are tried before one.
SlashDateGroups(text, i, a, b) ==
    ZFill2(SubSeq(text, i, i + a - 1)) \o <<"/">>
        \o ZFill2(SubSeq(text, i + a + 1, i + a + b)) \o <<"/">>
        \o SubSeq(text, i + a + b + 2, i + a + b + 5)

SlashDateWithDay(text, i, a) ==
    SlashDateGroups(text, i, a, IF SlashDateAt(text, i, a, 2) THEN 2 ELSE 1)

SlashDateFrom(text, i) ==
    SlashDateWithDay(text, i,
        IF \E b \in 1..2 : SlashDateAt(text, i, 2, b) THEN 2 ELSE 1)

HasIsoDate(text) == \E i \in 1..Len(text) : IsoDateAt(text, i)

SlashDateStarts(text, i) == \E a, b \in 1..2 : SlashDateAt(text, i, a, b)

HasSlashDate(text) == \E i \in 1..Len(text) : SlashDateStarts(text, i)

extract_date(text) ==
    IF text = <<>> \/ Len(Strip(text)) < 6 THEN <<>>
    ELSE IF HasIsoDate(text)
    THEN IsoDateFrom(text, CHOOSE k \in 1..Len(text) :
                             /\ IsoDateAt(text, k)
                             /\ \A j \in 1..(k - 1) : ~IsoDateAt(text, j))
    ELSE IF HasSlashDate(text)
    THEN SlashDateFrom(text, CHOOSE k \in 1..Len(text) :
                               /\ SlashDateStarts(text, k)
                               /\ \A j \in 1..(k - 1) :
                                    ~SlashDateStarts(text, j))
    ELSE <<>>

\* The maximal run of digits that starts at position i.
DigitsFrom(text, i) ==
    SubSeq(text, i, i - 1 + CHOOSE m \in 1..(Len(text) - i + 1) :
                                /\ AllDigits(text, i, m)
                                /\ ~AllDigits(text, i, m + 1))

\* The first maximal run of digits of a text that holds one.
FirstDigits(text) ==
    DigitsFrom(text, CHOOSE k \in 1..Len(text) :
                        /\ IsDigit(text[k])
                        /\ \A j \in 1..(k - 1) : ~IsDigit(text[j]))

\* re.search(r'\d+', text): int(match.group()) if there is a match, else 0
FirstNumber(text) ==
    IF \E k \in 1..Len(text) : IsDigit(text[k])
    THEN DigitsValue(FirstDigits(text)) ELSE 0

\* extract_number without the expansion of 'k'.
extract_number_without_k(text) ==
    FirstNumber(Replace(Replace(Replace(text, " ", <<>>), ",", <<>>),
                        "€", <<>>))

extract_number(text) ==
    FirstNumber(Replace(Replace(Replace(Replace(text, " ", <<>>), ",", <<>>),
                                "€", <<>>), "k", <<"0", "0", "0">>))

(***************************************************************************)
(* calculate_days_between_dates.  A date is its proleptic Gregorian        *)
(* ordinal, day 1 being Monday 0001-01-01 (datetime.toordinal).            *)
(***************************************************************************)
MINYEAR == 1
MAXYEAR == 9999

IsLeap(y) == (y % 4 = 0) /\ ((y % 100 # 0) \/ (y % 400 = 0))

DaysInMonth(y, m) ==
    IF m = 2 THEN (IF IsLeap(y) THEN 29 ELSE 28)
    ELSE IF m \in {4, 6, 9, 11} THEN 30 ELSE 31

DaysBeforeYear(y) ==
    (y - 1) * 365 + ((y - 1) \div 4) - ((y - 1) \div 100) + ((y - 1) \div 400)

RECURSIVE DaysBeforeMonth(_, _)
DaysBeforeMonth(y, m) ==
    IF m = 1 THEN 0 ELSE DaysBeforeMonth(y, m - 1) + DaysInMonth(y, m - 1)

Ordinal(y, m, d) == DaysBeforeYear(y) + DaysBeforeMonth(y, m) + d

\* datetime.max, as a day
MaxOrdinal == Ordinal(MAXYEAR, 12, 31)

\* datetime(y, m, d): the day, or a ValueError
NoDate == [ok |-> FALSE, ord |-> 0]

MakeDate(y, m, d) ==
    IF /\ y >= MINYEAR /\ y <= MAXYEAR
       /\ m >= 1 /\ m <= 12
       /\ d >= 1 /\ d <= DaysInMonth(y, m)
    THEN [ok |-> TRUE, ord |-> Ordinal(y, m, d)]
    ELSE NoDate

\* current.weekday(): Monday is 0
Weekday(ord) == (ord + 6) % 7

\* int() of a text without sign: digits that single underscores may
\* separate; ok is FALSE for a ValueError.
IntOfBody(negative, body) ==
    IF /\ body # <<>>
       /\ \A k \in 1..Len(body) : IsDigit(body[k]) \/ body[k] = "_"
       /\ IsDigit(body[1]) /\ IsDigit(body[Len(body)])
       /\ \A k \in 1..(Len(body) - 1) : ~(body[k] = "_" /\ body[k + 1] = "_")
    THEN [ok  |-> TRUE,
          val |-> (IF negative THEN 0 - 1 ELSE 1)
                    * DigitsValue(SelectSeq(body, LAMBDA c : c # "_"))]
    ELSE [ok |-> FALSE, val |-> 0]

\* int() of a text without surrounding whitespace: an optional sign first.
IntOfStripped(t) ==
    IF t # <<>> /\ t[1] \in {"+", "-"} THEN IntOfBody(t[1] = "-", Tail(t))
    ELSE IntOfBody(FALSE, t)

\* int(text)
PyInt(text) == IntOfStripped(Strip(text))

\* datetime(int(parts[2]), int(parts[1]), int(parts[0]))
DateOfInts(y, m, d) ==
    IF y.ok /\ m.ok /\ d.ok THEN MakeDate(y.val, m.val, d.val) ELSE NoDate

\* Lines 410-412.  With a number of parts other than 3 the variable stays
\* unbound, and its first use raises.
DateOfParts(parts) ==
    IF Len(parts) # 3 THEN NoDate
    ELSE DateOfInts(PyInt(parts[3]), PyInt(parts[2]), PyInt(parts[1]))

\* The branch taken when '/' is in the text (lines 408-412).
ParseSlashDate(text) == DateOfParts(Split(text, "/"))

\* The alternatives of strptime's %m and %d, in the order the regular
\* expression tries them: the number of characters matched at i, 0 for none.
MonthMatch(t, i) ==
    IF CharAt(t, i, "1") /\ i + 1 <= Len(t) /\ t[i + 1] \in {"0", "1", "2"}
    THEN 2
    ELSE IF CharAt(t, i, "0") /\ AllDigits(t, i + 1, 1) /\ t[i + 1] # "0"
    THEN 2
    ELSE IF AllDigits(t, i, 1) /\ t[i] # "0" THEN 1
    ELSE 0

DayMatch(t, i) ==
    IF CharAt(t, i, "3") /\ i + 1 <= Len(t) /\ t[i + 1] \in {"0", "1"}
    THEN 2
    ELSE IF i <= Len(t) /\ t[i] \in {"1", "2"} /\ AllDigits(t, i + 1, 1)
    THEN 2
    ELSE IF CharAt(t, i, "0") /\ AllDigits(t, i + 1, 1) /\ t[i + 1] # "0"
    THEN 2
    ELSE IF AllDigits(t, i, 1) /\ t[i] # "0" THEN 1
    ELSE IF CharAt(t, i, " ") /\ AllDigits(t, i + 1, 1) /\ t[i + 1] # "0"
    THEN 2
    ELSE 0

\* The match of '%Y-%m-%d' on t, with a characters for %m and b for %d.
IsoDateWithDay(t, a, b) ==
    IF /\ AllDigits(t, 1, 4)
       /\ CharAt(t, 5, "-")
       /\ a > 0
       /\ CharAt(t, 6 + a, "-")
       /\ b > 0
       /\ Len(t) = 6 + a + b
    THEN MakeDate(DigitsValue(SubSeq(t, 1, 4)),
                  DigitsValue(SubSeq(t, 6, 5 + a)),
                  DigitsValue(Strip(SubSeq(t, 7 + a, 6 + a + b))))
    ELSE NoDate

IsoDateWithMonth(t, a) == IsoDateWithDay(t, a, DayMatch(t, 6 + a + 1))

IsoDateOf(t) == IsoDateWithMonth(t, MonthMatch(t, 6))

\* datetime.strptime(text[:10], '%Y-%m-%d') (lines 415, 424)
ParseIsoDate(text) == IsoDateOf(Take(text, 10))

ParseDate(text) ==
    IF Contains(text, "/") THEN ParseSlashDate(text) ELSE ParseIsoDate(text)

\* The loop of lines 427-432: every day from current to end is visited and
\* the Monday-to-Friday ones are counted; -1 when the loop reaches
\* datetime.max, where current + timedelta(days=1) raises OverflowError.
CountDays(current, end) ==
    IF current <= end /\ end = MaxOrdinal THEN 0 - 1
    ELSE Cardinality({ day \in current..end : Weekday(day) < 5 })

DEFAULT_DAYS == 20

\* return max(1, days), and the default when the loop raised
DaysOrDefault(counted) ==
    IF counted < 0 THEN DEFAULT_DAYS ELSE Max(1, counted)

\* Lines 426-436 for two parsed dates; the default when a parse raised.
DaysBetween(start, end) ==
    IF ~start.ok \/ ~end.ok THEN DEFAULT_DAYS
    ELSE DaysOrDefault(CountDays(start.ord, end.ord))

calculate_days_between_dates(date_start, date_end) ==
    DaysBetween(ParseDate(date_start), ParseDate(date_end))

(***************************************************************************)
(* Response decoder: one row decoder per tabular field.  A decoder's       *)
(* result is [raised, rows]: raised for an exception leaving the decoder.  *)
(***************************************************************************)
S_equipe_projet == <<"É","q","u","i","p","e"," ","p","r","o","j","e","t">>
S_description_a_definir == <<"D","e","s","c","r","i","p","t","i","o","n"," ","à"," ","d","é","f","i","n","i","r">>
S_phase == <<"P","h","a","s","e"," ">>
S_jalon == <<"J","a","l","o","n"," ">>
S_validation == <<"V","a","l","i","d","a","t","i","o","n">>
S_criteres_a_definir == <<"C","r","i","t","è","r","e","s"," ","à"," ","d","é","f","i","n","i","r">>
S_a_definir == <<"À"," ","d","é","f","i","n","i","r">>
S_chef_de_projet == <<"C","h","e","f"," ","d","e"," ","p","r","o","j","e","t">>
S_document == <<"D","o","c","u","m","e","n","t">>
S_notre_entreprise == <<"N","O","T","R","E"," ","E","N","T","R","E","P","R","I","S","E">>

\* The line caps of the decoders.
CapPhases == 8
CapJalons == 5
CapContraintes == 5
CapRisques == 6
CapLivrables == 6
CapCouts == 7

\* content.strip().split('\n')
LinesOf(content) == Split(Strip(content), "\n")

\* [p.strip() for p in line.split('|')]
StripAll(raw) == [k \in 1..Len(raw) |-> Strip(raw[k])]

PartsOf(line) == StripAll(Split(line, "|"))

\* A dict with keys col0, col1, ... for a sequence of values.
RowOf(values) ==
    [k \in { ColKey(j - 1) : j \in 1..Len(values) } |->
        values[CHOOSE j \in 1..Len(values) : ColKey(j - 1) = k]]

OneRow(values) == [raised |-> FALSE, rows |-> <<RowOf(values)>>]
NoRow == [raised |-> FALSE, rows |-> <<>>]
Raise == [raised |-> TRUE, rows |-> <<>>]

\* Lines 453-484, for the line of index i (parts is indexed from 1).
PhaseRows(parts, i) ==
    IF Len(parts) >= 5
    THEN LET date_start == parts[3]
             date_end   == parts[4]
             duration   == calculate_days_between_dates(date_start, date_end)
         IN  OneRow(<< StrV(parts[1]), StrV(parts[2]),
                       StrV(IntText(duration)), StrV(date_start),
                       StrV(date_end),
                       StrV(IF Len(parts) > 5 THEN parts[5]
                            ELSE S_equipe_projet) >>)
    ELSE OneRow(<< StrV(IF Len(parts) > 0 THEN parts[1]
                        ELSE S_phase \o IntText(i + 1)),
                   StrV(IF Len(parts) > 1 THEN parts[2]
                        ELSE S_description_a_definir),
                   StrV(<<"2", "0">>), StrV(<<>>), StrV(<<>>),
                   StrV(S_equipe_projet) >>)

\* A row decoder for jalons that drops a line of fewer than 3 columns.
JalonRowsWithoutFallback(parts, i) ==
    IF Len(parts) >= 3
    THEN OneRow(<< StrV(parts[1]), StrV(parts[2]),
                   StrV(extract_date(parts[3])),
                   StrV(IF Len(parts) > 3 THEN parts[4]
                        ELSE S_criteres_a_definir) >>)
    ELSE NoRow

\* Lines 506-524.
JalonRows(parts, i) ==
    IF Len(parts) >= 3
    THEN OneRow(<< StrV(parts[1]),
                   StrV(IF Len(parts) > 1 THEN parts[2] ELSE S_validation),
                   StrV(IF Len(parts) > 2 THEN extract_date(parts[3])
                        ELSE <<>>),
                   StrV(IF Len(parts) > 3 THEN parts[4]
                        ELSE S_criteres_a_definir) >>)
    ELSE OneRow(<< StrV(IF Len(parts) > 0 THEN parts[1]
                        ELSE S_jalon \o IntText(i + 1)),
                   StrV(S_validation), StrV(<<>>),
                   StrV(S_criteres_a_definir) >>)

\* Lines 562-569.
ContrainteRows(parts, i) ==
    IF Len(parts) >= 3
    THEN OneRow(<< StrV(parts[1]), StrV(parts[2]),
                   StrV(map_criticality(parts[3])),
                   StrV(IF Len(parts) > 3 THEN parts[4] ELSE S_a_definir) >>)
    ELSE NoRow

\* Lines 584-592.
RisqueRows(parts, i) ==
    IF Len(parts) >= 4
    THEN OneRow(<< StrV(parts[1]), StrV(map_probability(parts[2])),
                   StrV(map_impact(parts[3])), StrV(parts[4]),
                   StrV(IF Len(parts) > 4 THEN parts[5]
                        ELSE S_chef_de_projet) >>)
    ELSE NoRow

\* Lines 607-614.
LivrableRows(parts, i) ==
    IF Len(parts) >= 3
    THEN OneRow(<< StrV(parts[1]),
                   StrV(IF Len(parts) > 1 THEN parts[2] ELSE S_document),
                   StrV(IF Len(parts) > 2 THEN extract_date(parts[3])
                        ELSE <<>>),
                   StrV(IF Len(parts) > 3 THEN parts[4]
                        ELSE S_notre_entreprise) >>)
    ELSE NoRow

\* Lines 629-641.
CoutConstructionRows(parts, i) ==
    IF Len(parts) >= 3
    THEN LET nb_jh == extract_number(parts[2])
             tjm   == extract_number(parts[3])
             total == nb_jh * tjm
         IN  OneRow(<< StrV(parts[1]), StrV(IntText(nb_jh)),
                       StrV(IntText(tjm)), StrV(IntText(total)),
                       StrV(IF Len(parts) > 4 THEN parts[5] ELSE <<>>) >>)
    ELSE NoRow

\* Lines 656-668.  parts[3] of the code is the fourth column: an
\* IndexError when the line has three; col2 is the float prix_mensuel.
CoutFonctionnementRows(parts, i) ==
    IF Len(parts) >= 3
    THEN IF Len(parts) < 4 THEN Raise
         ELSE OneRow(<< StrV(parts[1]), StrV(parts[2]),
                        FloatV(extract_number(parts[3])), StrV(parts[4]),
                        StrV(IF Len(parts) > 4 THEN parts[5] ELSE <<>>) >>)
    ELSE NoRow

LineRows(table_type, parts, i) ==
    CASE table_type = "phases"              -> PhaseRows(parts, i)
      [] table_type = "jalons"              -> JalonRows(parts, i)
      [] table_type = "contraintes"         -> ContrainteRows(parts, i)
      [] table_type = "risques"             -> RisqueRows(parts, i)
      [] table_type = "livrables"           -> LivrableRows(parts, i)
      [] table_type = "coutsConstruction"   -> CoutConstructionRows(parts, i)
      [] table_type = "coutsFonctionnement" -> CoutFonctionnementRows(parts, i)

LineCap(table_type) ==
    CASE table_type = "phases"              -> CapPhases
      [] table_type = "jalons"              -> CapJalons
      [] table_type = "contraintes"         -> CapContraintes
      [] table_type = "risques"             -> CapRisques
      [] table_type = "livrables"           -> CapLivrables
      [] table_type = "coutsConstruction"   -> CapCouts
      [] table_type = "coutsFonctionnement" -> CapCouts

\* The loop shared by the decoders: for i, line in enumerate(lines[:cap]),
\* blank lines skipped, each other line giving one row or none.  (The break
\* of parse_phases and parse_jalons on len(rows) >= cap can only act after
\* the last of the cap lines.)
LineResults(table_type, lines) ==
    [i \in 1..Len(lines) |->
        IF Strip(lines[i]) = <<>> THEN NoRow
        ELSE LineRows(table_type, PartsOf(lines[i]), i - 1)]

\* The rows of the lines that gave one, in the order of the lines.
CollectRows(result, kept) ==
    [raised |-> FALSE,
     rows   |-> [k \in 1..Len(kept) |-> result[kept[k]].rows[1]]]

ResultOf(result) ==
    IF \E i \in 1..Len(result) : result[i].raised THEN Raise
    ELSE CollectRows(result, SelectSeq([i \in 1..Len(result) |-> i],
                                       LAMBDA i : result[i].rows # <<>>))

DecodeLines(table_type, lines) == ResultOf(LineResults(table_type, lines))

DecodeTable(table_type, content) ==
    DecodeLines(table_type, Take(LinesOf(content), LineCap(table_type)))

parse_phases(content) == DecodeTable("phases", content)
parse_jalons(content) == DecodeTable("jalons", content)
parse_contraintes(content) == DecodeTable("contraintes", content)
parse_risques(content) == DecodeTable("risques", content)
parse_livrables(content) == DecodeTable("livrables", content)
parse_couts_construction(content) == DecodeTable("coutsConstruction", content)
parse_couts_fonctionnement(content) ==
    DecodeTable("coutsFonctionnement", content)

parse_table_content(content, table_type) ==
    CASE table_type = "contraintes"         -> parse_contraintes(content)
      [] table_type = "risques"             -> parse_risques(content)
      [] table_type = "phases"              -> parse_phases(content)
      [] table_type = "livrables"           -> parse_livrables(content)
      [] table_type = "jalons"              -> parse_jalons(content)
      [] table_type = "coutsConstruction"   -> parse_couts_construction(content)
      [] table_type = "coutsFonctionnement" -> parse_couts_fonctionnement(content)
      [] OTHER                              -> NoRow

(***************************************************************************)
(* The decoder at work: parse_table_content called on a generated text,    *)
(* and the part of /generate that follows the generation.                  *)
(***************************************************************************)

\* Cells of sample lines: words, severity words, dates, numbers, padding.
CellsA == << <<"a">>, <<"H","a","u","t">>, <<"2","0","2","4","-","0","1","-","0","1">>, <<"5","/","1","/","2","0","2","4">>, <<"e">>, <<"f">> >>
CellsB == << <<"n">>, <<"3">>, <<"1","5","k","€">>, <<"1",",","2","0","0">>, <<" ","x"," ">>, <<>> >>

SampleLine(cells, n) == Join(Take(cells, n), <<"|">>)

\* Lines of 1 to 6 columns, the empty line and a line of blanks.
SampleLines ==
    { SampleLine(cells, n) : cells \in {CellsA, CellsB}, n \in 1..Len(CellsA) }
        \cup { <<>>, <<" ">> }

SampleTexts ==
    UNION { { Join(ls, <<"\n">>) : ls \in [1..n -> SampleLines] } :
            n \in 1..MaxLines }

\* Well-formed rows of a tabular field: one trimmed value per schema column.
WellFormedValues(f) ==
    CASE f = "contraintes" ->
            { << <<"t">>, <<"d">>, <<"H","a","u","t">>, <<"m">> >>, << <<"t">>, <<"d">>, <<"M","o","y","e","n">>, <<"m">> >> }
      [] f = "risques" ->
            { << <<"r">>, <<"f","a","i","b","l","e">>, <<"m","a","j","e","u","r">>, <<"p">>, <<"o">> >>,
              << <<"r">>, <<"M","o","y","e","n","n","e">>, <<"M","o","y","e","n">>, <<"p">>, <<"o">> >> }
      [] f = "phases" ->
            { << <<"P">>, <<"d">>, <<"2","0","2","4","-","0","1","-","0","1">>, <<"2","0","2","4","-","0","1","-","0","5">>, <<"T">> >>,
              << <<"P">>, <<"d">>, <<"1","/","1","/","2","0","2","4">>, <<"5","/","1","/","2","0","2","4">>, <<"T">> >> }
      [] f = "livrables" ->
            { << <<"n">>, <<"d">>, <<"2","0","2","4","-","0","1","-","0","5">>, <<"o">> >>, << <<"n">>, <<"d">>, <<"5","/","1","/","2","0","2","4">>, <<"o">> >> }
      [] f = "jalons" ->
            { << <<"n">>, <<"t">>, <<"2","0","2","4","-","0","1","-","0","5">>, <<"c">> >>, << <<"n">>, <<"t">>, <<"5","/","1","/","2","0","2","4">>, <<"c">> >> }
      [] f = "coutsConstruction" ->
            { << <<"p">>, <<"2">>, <<"3">>, <<"6">>, <<"c">> >>,
              << <<"p">>, <<"1","0">>, <<"1","5","k","€">>, <<"1","5","0","0","0","0">>, <<"c">> >> }
      [] f = "coutsFonctionnement" ->
            { << <<"p">>, <<"2">>, <<"1","2","0","0">>, <<"2","4","0","0">>, <<"c">> >>,
              << <<"p">>, <<"1">>, <<"1","0","0">>, <<"1","0","0">>, <<"c">> >> }

WellFormedRows(f) ==
    { RowOf([j \in 1..Len(v) |-> StrV(v[j])]) : v \in WellFormedValues(f) }

\* The lines format_table_for_context writes for the well-formed rows.
WellFormedLines(f) ==
    { format_table_for_context(<<row>>, f) : row \in WellFormedRows(f) }

\* n lines, with no blank line, one after the first line, or one after
\* every line but the last.
Spaced(ls, gaps) ==
    CASE gaps = "none"  -> ls
      [] gaps = "first" -> <<ls[1], <<>>>> \o Tail(ls)
      [] gaps = "every" ->
            [k \in 1..(2 * Len(ls) - 1) |->
                IF k % 2 = 1 THEN ls[(k + 1) \div 2] ELSE <<>>]

\* Texts of as many well-formed lines as the cap of the field, and of one
\* more, with and without blank lines between them.
LongTexts(f) ==
    { Join(Spaced([k \in 1..n |-> ln], gaps), <<"\n">>) :
        ln \in WellFormedLines(f),
        n \in {LineCap(f), LineCap(f) + 1},
        gaps \in {"none", "first", "every"} }

\* request.field: the tabular fields, the alias 'lots', a scalar field.
\* Lines in the column order the decoders document: a phases line
\* Phase|Description|Duree|Date debut|Date fin|Equipes, and cost lines whose
\* total column is not the product of the two numbers before it.
DocumentedLines(f) ==
    CASE f = "phases" ->
            { <<"P","|","d","|","5","|","2","0","2","4","-","0","1","-","0","1","|","2","0","2","4","-","0","1","-","0","5","|","T">>,
              <<"P","|","d","|","3"," ","j","o","u","r","s","|","1","/","1","/","2","0","2","4","|","3","/","1","/","2","0","2","4","|","T">> }
      [] f = "coutsConstruction" ->
            { <<"p","|","2","|","3","|","9","9","9","|","c">>,
              <<"p","|","1","0","|","1","5","k","€","|","7","|","c">> }
      [] f = "coutsFonctionnement" ->
            { <<"p","|","2","|","1","2","0","0","|","9","9","9","|","c">>,
              <<"p","|","3","|","1","0","0","|","7","|","c">> }
      [] OTHER -> {}

DocumentedFields == {"phases", "coutsConstruction", "coutsFonctionnement"}

DecFields == DOMAIN TABLE_FIELDS \cup {"lots", "budget"}

DecOff ==
    /\ request_field = ""
    /\ raw_response = <<>>
    /\ source_rows = <<>>
    /\ parsed_response = StrV(<<>>)
    /\ raised = FALSE
    /\ status = 0
    /\ dec_pc = "off"

\* A generated text: any sample text for any field, the line that
\* format_table_for_context writes for a well-formed row of the field, or a
\* text of such lines long enough to meet the cap of the field.
DecInit ==
    /\ request_field \in DecFields
    /\ \/ /\ raw_response \in SampleTexts
          /\ source_rows = <<>>
       \/ /\ request_field \in DOMAIN TABLE_FIELDS
          /\ \E row \in WellFormedRows(request_field) :
               /\ source_rows = <<row>>
               /\ raw_response =
                    format_table_for_context(<<row>>, request_field)
       \/ /\ request_field \in DOMAIN TABLE_FIELDS
          /\ raw_response \in LongTexts(request_field)
          /\ source_rows = <<>>
       \/ /\ request_field \in DocumentedFields
          /\ raw_response \in DocumentedLines(request_field)
          /\ source_rows = <<>>
    /\ parsed_response = StrV(<<>>)
    /\ raised = FALSE
    /\ status = 0
    /\ dec_pc = "idle"

\* parse_table_content(raw_response, request_field)
Decode ==
    /\ dec_pc = "idle"
    /\ LET r == parse_table_content(raw_response, request_field)
       IN  /\ raised' = r.raised
           /\ parsed_response' = ListV(r.rows)
    /\ dec_pc' = "decoded"
    /\ UNCHANGED <<request_field, raw_response, source_rows, status,
                   notDec>>

\* generate_field, lines 828-871: the response is decoded when the field is
\* in table_fields, 'lots' as phases; an exception becomes a status 500.
GenerateField ==
    /\ dec_pc = "idle"
    /\ LET table_fields == {"contraintes", "risques", "lots", "livrables",
                            "jalons", "coutsConstruction",
                            "coutsFonctionnement"}
           parse_type == IF request_field = "lots" THEN "phases"
                         ELSE request_field
           r == IF request_field \in table_fields
                THEN parse_table_content(raw_response, parse_type)
                ELSE NoRow
       IN  /\ raised' = r.raised
           /\ parsed_response' = IF request_field \in table_fields
                                 THEN ListV(r.rows)
                                 ELSE StrV(raw_response)
           /\ status' = IF r.raised THEN 500 ELSE 200
    /\ dec_pc' = "responded"
    /\ UNCHANGED <<request_field, raw_response, source_rows, notDec>>

DecNext == Decode \/ GenerateField

(***************************************************************************)
(* The business-day calculation at work.                                   *)
(***************************************************************************)

IsoText(y, m, d) ==
    NatText(y) \o <<"-">> \o ZFill2(NatText(m)) \o <<"-">> \o ZFill2(NatText(d))

\* Dates of the first days of 2024 (2024-01-01 is a Monday), the last two
\* days a datetime can hold, both notations, and texts that are no date.
SampleDates ==
    { IsoText(2024, 1, 1 + k) : k \in 0..MaxSpan }
        \cup { <<"9","9","9","9","-","1","2","-","3","0">>, <<"9","9","9","9","-","1","2","-","3","1">>, <<"5","/","1","/","2","0","2","4">>, <<"0","6","/","0","1","/","2","0","2","4">>, <<"3","1","/","1","2","/","9","9","9","9">>, <<"2","0","2","4","-","0","1","-","0","5","T","1","0",":","0","0">> }
        \cup { <<>>, <<"j","a","n","v","i","e","r">>, <<"2","0","2","4","-","1","3","-","0","1">>, <<"1","/","2","0","2","4">>, <<"2","0","2","4","-","0","2","-","3","0">>, <<"3","0","/","0","2","/","2","0","2","4">> }

\* The number of days the loop of the calculation steps over.
SpanOf(a, b) ==
    LET start == ParseDate(a)
        end   == ParseDate(b)
    IN  IF start.ok /\ end.ok /\ start.ord <= end.ord /\ end.ord # MaxOrdinal
        THEN end.ord - start.ord ELSE 0

DaysOff ==
    /\ days_start = <<>>
    /\ days_end = <<>>
    /\ days_result = 0
    /\ days_pc = "off"

DaysInit ==
    /\ days_start \in SampleDates
    /\ days_end \in SampleDates
    /\ SpanOf(days_start, days_end) <= 31
    /\ days_result = 0
    /\ days_pc = "idle"

CalculateDays ==
    /\ days_pc = "idle"
    /\ days_result' = calculate_days_between_dates(days_start, days_end)
    /\ days_pc' = "done"
    /\ UNCHANGED <<days_start, days_end, notDays>>

DaysNext == CalculateDays

(***************************************************************************)
(* The numeric extraction at work.                                         *)
(***************************************************************************)

\* Digits, the characters extract_number removes or expands, and others.
NumAlphabet == {"1", "5", "0", "k", "€", ",", " ", "a"}

\* The digits of the text after the expansion of each 'k'.
DigitCount(text) ==
    Len(SelectSeq(text, IsDigit))
        + 3 * Len(SelectSeq(text, LAMBDA c : c = "k"))

\* Every text of at most MaxNumLen characters, and longer amounts; the
\* amounts stay below 10^9.
SampleNumbers ==
    { t \in UNION { [1..n -> NumAlphabet] : n \in 0..MaxNumLen } :
        DigitCount(t) <= 9 }
        \cup { <<"1",",","2","0","0">>, <<"1"," ","2","0","0"," ","€">>, <<"1","2","k","5"," ","a","7">> }

NumOff ==
    /\ num_text = <<>>
    /\ num_result = 0
    /\ num_pc = "off"

NumInit ==
    /\ num_text \in SampleNumbers
    /\ num_result = 0
    /\ num_pc = "idle"

ExtractNumber ==
    /\ num_pc = "idle"
    /\ num_result' = extract_number(num_text)
    /\ num_pc' = "done"
    /\ UNCHANGED <<num_text, notNumber>>

NumNext == ExtractNumber

(***************************************************************************)
(* Two minimal calls compared.  The random source belongs to the process,  *)
(* and other requests draw from it between two calls of a caller; the call *)
(* that ended last is remembered to set the next one against it.           *)
(***************************************************************************)
NoCall == [target |-> "", rng |-> 0, parts |-> <<>>, used |-> <<>>]

RepOff == previous = NoCall

RepInit == previous = NoCall

\* A draw of another request: random.choice, random.shuffle, random.randint.
\* One draw between two calls is enough to tell them apart.
Draw ==
    /\ ctx_pc = "idle"
    /\ previous = NoCall \/ rng = previous.rng
    /\ rng' = RngNext(rng)
    /\ UNCHANGED <<frontend_context, ctx_pc, target_field, complexity,
                   context_parts, used_fields, notCtx>>

\* The call returns and is remembered.
RepeatEnd ==
    /\ ctx_pc = "done"
    /\ previous' = [target |-> target_field, rng |-> rng,
                    parts |-> context_parts, used |-> used_fields]
    /\ ctx_pc' = "idle"
    /\ target_field' = ""
    /\ complexity' = ""
    /\ context_parts' = <<>>
    /\ used_fields' = <<>>
    /\ UNCHANGED <<frontend_context, rng, promptVars, tokVars, decVars,
                   daysVars, numVars, loadVars, genVars, sevVars, colVars,
                   passVars, apiVars>>

RepNext == BuildMinimal \/ Draw \/ RepeatEnd

(***************************************************************************)
(* Dataset loading (training): validate_entry and load_dataset.  A line    *)
(* of the file is what json.loads makes of it: a JSON value, or nothing    *)
(* when json.loads raises.                                                 *)
(***************************************************************************)
JNull      == [kind |-> "null",   text |-> <<>>, items |-> <<>>]
JNumber    == [kind |-> "number", text |-> <<>>, items |-> <<>>]
JString(t) == [kind |-> "string", text |-> t,    items |-> <<>>]
JList(xs)  == [kind |-> "list",   text |-> <<>>, items |-> xs]
\* An object: its members as <<key, value>> pairs, in the order written.
JObject(ms) == [kind |-> "object", text |-> <<>>, items |-> ms]
NoJson     == [kind |-> "none",   text |-> <<>>, items |-> <<>>]

S_messages  == <<"m","e","s","s","a","g","e","s">>
S_user      == <<"u","s","e","r">>
S_assistant == <<"a","s","s","i","s","t","a","n","t">>
S_START     == <<"<","S","T","A","R","T",">">>
S_END       == <<"<","E","N","D",">">>

\* key in d, for a dict d
HasKey(d, key) == \E i \in DOMAIN d.items : d.items[i][1] = key

\* d[key]: the member written last
Member(d, key) ==
    LET at == { i \in DOMAIN d.items : d.items[i][1] = key }
    IN  d.items[CHOOSE i \in at : \A j \in at : j <= i][2]

\* len(d) of a dict
KeyCount(d) == Cardinality({ d.items[i][1] : i \in DOMAIN d.items })

\* s.startswith(prefix), s.endswith(suffix)
StartsWith(s, prefix) ==
    Len(s) >= Len(prefix) /\ SubSeq(s, 1, Len(prefix)) = prefix
EndsWith(s, suffix) ==
    Len(s) >= Len(suffix)
        /\ SubSeq(s, Len(s) - Len(suffix) + 1, Len(s)) = suffix

\* 'messages' in entry: "yes", "no", or "raise" (TypeError: the argument is
\* not iterable).
InEntry(entry) ==
    CASE entry.kind = "object" ->
            IF HasKey(entry, "messages") THEN "yes" ELSE "no"
      [] entry.kind = "list" ->
            IF \E i \in DOMAIN entry.items : entry.items[i] = JString(S_messages)
            THEN "yes" ELSE "no"
      [] entry.kind = "string" ->
            IF HasWord(entry.text, S_messages) THEN "yes" ELSE "no"
      [] OTHER -> "raise"

\* len(entry['messages']), -1 for TypeError: the object has no len().
PyLen(v) ==
    CASE v.kind = "list"   -> Len(v.items)
      [] v.kind = "string" -> Len(v.text)
      [] v.kind = "object" -> KeyCount(v)
      [] OTHER -> -1

\* m.get('role') != role, for a dict m
RoleIsNot(msg, role) ==
    ~(HasKey(msg, "role") /\ Member(msg, "role") = JString(role))

\* A response that is checked for the start marker only.
ValidateResponseStartOnly(response) ==
    IF response.kind # "string" THEN "raise"
    ELSE IF StartsWith(response.text, S_START) THEN "True" ELSE "False"

\* Lines 183-187, from the value of .get('content', ''): AttributeError
\* when it has no startswith.
ValidateResponse(response) ==
    IF response.kind # "string" THEN "raise"
    ELSE IF StartsWith(response.text, S_START)
              /\ EndsWith(response.text, S_END)
         THEN "True" ELSE "False"

\* Lines 179-183: AttributeError when a message has no get; the second
\* role is not looked at when the first is wrong.
ValidateRoles(first, second) ==
    IF first.kind # "object" THEN "raise"
    ELSE IF RoleIsNot(first, S_user) THEN "False"
    ELSE IF second.kind # "object" THEN "raise"
    ELSE IF RoleIsNot(second, S_assistant) THEN "False"
    ELSE ValidateResponse(IF HasKey(second, "content")
                          THEN Member(second, "content")
                          ELSE JString(<<>>))

\* Lines 176-179, from entry['messages']: TypeError when it has no len(),
\* AttributeError or KeyError when its element 0 is asked of a str or dict.
ValidateMessages(messages) ==
    IF PyLen(messages) = -1 THEN "raise"
    ELSE IF PyLen(messages) # 2 THEN "False"
    ELSE IF messages.kind # "list" THEN "raise"
    ELSE ValidateRoles(messages.items[1], messages.items[2])

\* validate_entry(entry): "True", "False", or "raise" when an exception
\* leaves it.
validate_entry(entry) ==
    IF InEntry(entry) = "raise" THEN "raise"
    ELSE IF InEntry(entry) = "no" THEN "False"
    ELSE IF entry.kind # "object" THEN "raise"
    ELSE ValidateMessages(Member(entry, "messages"))

\* The try block of load_dataset for one line: which counter it raises.
LineOutcome(line) ==
    IF line = NoJson THEN "error"
    ELSE CASE validate_entry(line) = "True"  -> "valid"
           [] validate_entry(line) = "False" -> "invalid"
           [] OTHER -> "error"

\* Messages and entries of the sample files.
Message(role, content) ==
    JObject(<< <<"role", JString(role)>>, <<"content", content>> >>)
RoleOnly(role) == JObject(<< <<"role", JString(role)>> >>)
Entry(messages) == JObject(<< <<"messages", messages>> >>)

UserMsg   == Message(S_user, JString(<<"q">>))
Answer(t) == Message(S_assistant, JString(t))
GoodA     == Answer(S_START \o <<"a">> \o S_END)
GoodB     == Answer(S_START \o S_END)

SampleEntries ==
    << NoJson,
       JNull,
       JNumber,
       JString(S_messages),
       JString(<<"x">>),
       JList(<<JString(S_messages)>>),
       JList(<<>>),
       JObject(<<>>),
       Entry(JNumber),
       Entry(JString(<<"a", "b">>)),
       Entry(JObject(<< <<"a", JNumber>>, <<"b", JNumber>> >>)),
       Entry(JList(<<UserMsg>>)),
       Entry(JList(<<UserMsg, GoodA>>)),
       Entry(JList(<<UserMsg, GoodB>>)),
       Entry(JList(<<GoodA, UserMsg>>)),
       Entry(JList(<<UserMsg, GoodA, UserMsg>>)),
       Entry(JList(<<UserMsg, Answer(<<"a">>)>>)),
       Entry(JList(<<UserMsg, Answer(S_START \o <<"a">>)>>)),
       Entry(JList(<<UserMsg, Answer(<<"a">> \o S_END)>>)),
       Entry(JList(<<UserMsg, Answer(<<"a">> \o S_START \o S_END)>>)),
       Entry(JList(<<UserMsg, Message(S_assistant, JNull)>>)),
       Entry(JList(<<UserMsg, Message(S_assistant, JNumber)>>)),
       Entry(JList(<<UserMsg, RoleOnly(S_assistant)>>)),
       Entry(JList(<<UserMsg, JNumber>>)),
       Entry(JList(<<JNumber, GoodA>>)),
       Entry(JList(<<RoleOnly(S_assistant), JNumber>>)),
       Entry(JList(<<JObject(<<>>), GoodA>>)),
       Entry(JList(<<RoleOnly(S_user), GoodA>>)),
       JObject(<< <<"messages", JNull>>,
                  <<"messages", JList(<<UserMsg, GoodA>>)>> >>) >>

\* The files of at most MaxFileLines lines.
SampleFiles ==
    UNION { [1..n -> Range(SampleEntries)] : n \in 0..MaxFileLines }

LoadOff ==
    /\ file_lines = <<>>
    /\ lines_read = 0
    /\ dataset = <<>>
    /\ stats = [valid |-> 0, invalid |-> 0, error |-> 0]
    /\ load_pc = "off"

\* The callers start from fresh counters (lines 169, 313, 316).
LoadInit ==
    /\ file_lines \in SampleFiles
    /\ lines_read = 0
    /\ dataset = <<>>
    /\ stats = [valid |-> 0, invalid |-> 0, error |-> 0]
    /\ load_pc = "reading"

\* One turn of the loop of lines 194-204.
ReadLine ==
    /\ load_pc = "reading"
    /\ lines_read < Len(file_lines)
    /\ lines_read' = lines_read + 1
    /\ dataset' = IF LineOutcome(file_lines[lines_read + 1]) = "valid"
                  THEN Append(dataset, file_lines[lines_read + 1])
                  ELSE dataset
    /\ stats' = [stats EXCEPT
                    ![LineOutcome(file_lines[lines_read + 1])] = @ + 1]
    /\ UNCHANGED <<file_lines, load_pc, notLoad>>

\* Lines 206-209: the file is exhausted and data is returned.
LoadReturn ==
    /\ load_pc = "reading"
    /\ lines_read = Len(file_lines)
    /\ load_pc' = "returned"
    /\ UNCHANGED <<file_lines, lines_read, dataset, stats, notLoad>>

LoadNext == ReadLine \/ LoadReturn

(***************************************************************************)
(* The end of ModelManager.generate: the text between the markers is       *)
(* taken out of the decoded response.  For a scalar field /generate        *)
(* returns this text as the value (line 836).                              *)
(***************************************************************************)

\* The positions where word starts in text.
OccurrencesOf(text, word) ==
    { i \in 1..(Len(text) - Len(word) + 1) :
        SubSeq(text, i, i + Len(word) - 1) = word }

\* text.split(word) for a word that cannot overlap itself
SplitWord(text, word) ==
    [k \in 1..(Cardinality(OccurrencesOf(text, word)) + 1) |->
        SubSeq(text,
               IF k = 1 THEN 1
               ELSE CutAt(text, OccurrencesOf(text, word), k - 1) + Len(word),
               CutAt(text, OccurrencesOf(text, word), k) - 1)]

\* Lines 263-270 without the strip() of line 266.
ExtractContentUnstripped(response) ==
    IF HasWord(response, S_START) /\ HasWord(response, S_END)
    THEN SplitWord(SplitWord(response, S_START)[2], S_END)[1]
    ELSE response

\* Lines 263-270: content = response, replaced when both markers are in the
\* response; an exception of the extraction is caught and leaves content as
\* it is.
ExtractContent(response) ==
    IF HasWord(response, S_START) /\ HasWord(response, S_END)
    THEN IF Len(SplitWord(response, S_START)) < 2 THEN response
         ELSE Strip(SplitWord(SplitWord(response, S_START)[2], S_END)[1])
    ELSE response

\* Pieces of a generated text, and how many of them a text holds.
MaxPieces == 4

GenPieces == { S_START, S_END, <<"a">>, <<" ">>, <<"\n">> }

GenTexts ==
    UNION { { Join(ps, <<>>) : ps \in [1..n -> GenPieces] } : n \in 0..MaxPieces }

GenOff ==
    /\ gen_response = <<>>
    /\ gen_content = <<>>
    /\ gen_pc = "off"

GenInit ==
    /\ gen_response \in GenTexts
    /\ gen_content = <<>>
    /\ gen_pc = "idle"

\* ModelManager.generate from line 263 on.
ExtractMarkers ==
    /\ gen_pc = "idle"
    /\ gen_content' = ExtractContent(gen_response)
    /\ gen_pc' = "returned"
    /\ UNCHANGED <<gen_response, notGenerate>>

GenNext == ExtractMarkers

(***************************************************************************)
(* The severity mappers at work: a mapper called on a text, then on its    *)
(* own result.                                                             *)
(***************************************************************************)
Mappers == {"criticality", "probability", "impact"}

MapWith(mapper, text) ==
    CASE mapper = "criticality" -> map_criticality(text)
      [] mapper = "probability" -> map_probability(text)
      [] mapper = "impact"      -> map_impact(text)

\* Pieces of a severity text (keywords in several cases, other words,
\* fragments of keywords), and how many of them a text holds.
MaxWords == 2

SevPieces ==
    { <<"F","a","i","b","l","e">>,
      <<"B","A","S">>,
      <<"l","o","w">>,
      <<"É","l","e","v","é">>,
      <<"E","L","E","V","É">>,
      <<"H","a","u","t">>,
      <<"H","I","G","H">>,
      <<"C","r","i","t","i","q","u","e">>,
      <<"m","a","j","e","u","r">>,
      <<"M","o","y","e","n","n","e">>,
      <<"x">>,
      <<" ">>,
      <<"é">>,
      <<"b","a">> }

SevTexts ==
    UNION { { Join(ps, <<>>) : ps \in [1..n -> SevPieces] } : n \in 0..MaxWords }

SevOff ==
    /\ sev_mapper = ""
    /\ sev_text = <<>>
    /\ sev_result = <<>>
    /\ sev_again = <<>>
    /\ sev_pc = "off"

SevInit ==
    /\ sev_mapper \in Mappers
    /\ sev_text \in SevTexts
    /\ sev_result = <<>>
    /\ sev_again = <<>>
    /\ sev_pc = "idle"

\* map_criticality(text), map_probability(text) or map_impact(text)
MapText ==
    /\ sev_pc = "idle"
    /\ sev_result' = MapWith(sev_mapper, sev_text)
    /\ sev_pc' = "mapped"
    /\ UNCHANGED <<sev_mapper, sev_text, sev_again, notSeverity>>

\* The same mapper called on the category it returned.
MapAgain ==
    /\ sev_pc = "mapped"
    /\ sev_again' = MapWith(sev_mapper, sev_result)
    /\ sev_pc' = "remapped"
    /\ UNCHANGED <<sev_mapper, sev_text, sev_result, notSeverity>>

SevNext == MapText \/ MapAgain

(***************************************************************************)
(* RobustDataCollator.__call__ (training): the examples of a batch are     *)
(* padded to one length.                                                   *)
(***************************************************************************)

\* max(len(ids) for ids in input_ids)
LongestOf(rows) ==
    CHOOSE n \in { Len(rows[i].ids) : i \in DOMAIN rows } :
        \A i \in DOMAIN rows : Len(rows[i].ids) <= n

\* The length of a batch when the longest row is always rounded to the
\* next multiple, a multiple included.
PaddedLengthNextMultiple(longest, multiple) ==
    IF multiple # 0 THEN ((longest \div multiple) + 1) * multiple
    ELSE longest

\* Lines 133-137: max_length, rounded up when pad_to_multiple_of is set.
PaddedLength(longest, multiple) ==
    IF multiple # 0
    THEN ((longest + multiple - 1) \div multiple) * multiple
    ELSE longest

\* row + [filler] * padding_length
PadRow(row, filler, padding_length) ==
    row \o [k \in 1..padding_length |-> filler]

\* Lines 143-154 for the rows of the batch and the length computed.
PadBatch(rows, pad_id, length) ==
    [ids  |-> [i \in DOMAIN rows |->
                  PadRow(rows[i].ids, pad_id, length - Len(rows[i].ids))],
     mask |-> [i \in DOMAIN rows |->
                  PadRow(rows[i].mask, 0, length - Len(rows[i].ids))],
     labs |-> [i \in DOMAIN rows |->
                  PadRow(rows[i].labs, -100, length - Len(rows[i].ids))]]

\* Bounds of the batches: tokens of an example, examples of a batch, and
\* the multiples tried besides the 8 of line 827.
MaxRowLen == 3
MaxBatch == 2
MaxMultiple == 3

\* An example as preprocess_example_fast returns it: n tokens, a mask of
\* ones, labels that hide the first p tokens (ids, mask and labs stand for
\* input_ids, attention_mask and labels).
Feature(n, p) ==
    [ids  |-> [k \in 1..n |-> 10 + k],
     mask |-> [k \in 1..n |-> 1],
     labs |-> [k \in 1..n |-> IF k <= p THEN -100 ELSE 10 + k]]

SampleFeatures == { Feature(n, p) : n \in 0..MaxRowLen, p \in {0, 1} }

NoBatch == [ids |-> <<>>, mask |-> <<>>, labs |-> <<>>]

ColOff ==
    /\ features = <<>>
    /\ pad_to_multiple_of = 0
    /\ pad_token_id = 0
    /\ batch = NoBatch
    /\ col_pc = "off"

ColInit ==
    /\ \E n \in 1..MaxBatch : features \in [1..n -> SampleFeatures]
    /\ pad_to_multiple_of \in (1..MaxMultiple) \cup {8}
    /\ pad_token_id \in {0, 2}
    /\ batch = NoBatch
    /\ col_pc = "idle"

\* RobustDataCollator.__call__(features)
Collate ==
    /\ col_pc = "idle"
    /\ batch' = PadBatch(features, pad_token_id,
                         PaddedLength(LongestOf(features),
                                      pad_to_multiple_of))
    /\ col_pc' = "done"
    /\ UNCHANGED <<features, pad_to_multiple_of, pad_token_id, notCollate>>

ColNext == Collate

(***************************************************************************)
(* The two preprocessing passes of prepare_datasets_from_files (training): *)
(* Dataset.map hands the dataset to preprocess_function batch by batch.    *)
(* An execution of preprocess_function is a record: the position of its    *)
(* first example, the size of its batch, and idx, its place in the loop.   *)
(***************************************************************************)

\* self.debug_examples, line 170
debug_examples == 3

\* Examples of a dataset, and the batch sizes tried besides the 100 of
\* lines 343 and 355.
MaxExamples == 4
MaxBatchSize == 2

\* map with several workers: a batch starts while another one is under
\* way.
CanStartWithWorkers(executions) == Cardinality(executions) < 2

\* map with num_proc=1 (line 346) and with the default num_proc (lines
\* 353-358): the batches are executed one after the other.
CanStart(executions) == executions = {}

\* The dataset of the pass under way.
PassLength ==
    IF pass_pc = "train" THEN dataset_sizes[1] ELSE dataset_sizes[2]

PassOff ==
    /\ dataset_sizes = <<0, 0>>
    /\ batch_size = 0
    /\ processed = 0
    /\ next_start = 0
    /\ running = {}
    /\ assigned = <<>>
    /\ diagnosed = {}
    /\ pass_pc = "off"

\* Line 334 is reached: both datasets hold an example (lines 319-322), the
\* counters are those load_dataset left (no processed yet, read as 0).
PassInit ==
    /\ dataset_sizes \in (1..MaxExamples) \X (1..MaxExamples)
    /\ batch_size \in (1..MaxBatchSize) \cup {100}
    /\ processed = 0
    /\ next_start = 0
    /\ running = {}
    /\ assigned = <<>>
    /\ diagnosed = {}
    /\ pass_pc = "loaded"

\* Lines 337 and 350: self.stats['processed'] = 0, and map begins.
ResetProcessed ==
    /\ pass_pc \in {"loaded", "between"}
    /\ processed' = 0
    /\ next_start' = 0
    /\ assigned' = <<>>
    /\ diagnosed' = {}
    /\ pass_pc' = IF pass_pc = "loaded" THEN "train" ELSE "validation"
    /\ UNCHANGED <<dataset_sizes, batch_size, running, notPreprocessing>>

\* map calls preprocess_function on the next batch_size examples.
StartBatch ==
    /\ pass_pc \in {"train", "validation"}
    /\ next_start < PassLength
    /\ CanStart(running)
    /\ running' = running \cup
          {[start |-> next_start,
            size  |-> Min(batch_size, PassLength - next_start),
            idx   |-> 0]}
    /\ next_start' = Min(next_start + batch_size, PassLength)
    /\ UNCHANGED <<dataset_sizes, batch_size, processed, assigned, diagnosed,
                   pass_pc, notPreprocessing>>

\* Lines 298-304, one turn of the loop: the counter is read, the index
\* computed, and preprocess_example_fast logs its diagnostics when the
\* index is below debug_examples (line 261).
ProcessExample ==
    /\ \E e \in running :
          /\ e.idx < e.size
          /\ LET example_idx == processed + e.idx
             IN  /\ assigned' = Append(assigned,
                                       <<e.start + e.idx, example_idx>>)
                 /\ diagnosed' =
                       IF example_idx < debug_examples /\ example_idx >= 0
                       THEN diagnosed \cup {e.start + e.idx}
                       ELSE diagnosed
          /\ running' = (running \ {e}) \cup {[e EXCEPT !.idx = e.idx + 1]}
    /\ UNCHANGED <<dataset_sizes, batch_size, processed, next_start, pass_pc,
                   notPreprocessing>>

\* Line 306: self.stats['processed'] += len(examples['messages'])
FinishBatch ==
    /\ \E e \in running :
          /\ e.idx = e.size
          /\ processed' = processed + e.size
          /\ running' = running \ {e}
    /\ UNCHANGED <<dataset_sizes, batch_size, next_start, assigned, diagnosed,
                   pass_pc, notPreprocessing>>

\* map returns: every batch was handed out and executed.
EndPass ==
    /\ pass_pc \in {"train", "validation"}
    /\ next_start = PassLength
    /\ running = {}
    /\ pass_pc' = IF pass_pc = "train" THEN "between" ELSE "finished"
    /\ UNCHANGED <<dataset_sizes, batch_size, processed, next_start, running,
                   assigned, diagnosed, notPreprocessing>>

PassNext ==
    ResetProcessed \/ StartBatch \/ ProcessExample \/ FinishBatch \/ EndPass

(***************************************************************************)
(* The model manager and the endpoints that generate: startup (lifespan),  *)
(* load_model, /generate and /generate_multiple.  What a load or a         *)
(* generation does outside the program (reading the files of the model,    *)
(* running it) is an outcome drawn from the ones the code handles.         *)
(***************************************************************************)

\* Requests served, and fields of a /generate_multiple request that are
\* used (request.fields[:5], line 879).
MaxRequests == 4
MaxFields == 5

LoadOutcomes == {"ok", "tokenizer_raises", "model_raises"}
RunOutcomes == {"ok", "raises"}

\* A /generate that never refuses a request.
RequestRefusedNever(loaded) == FALSE

\* Lines 797-798: if not model_manager.is_loaded: raise HTTPException(503)
RequestRefused(loaded) == ~loaded

\* load_model, lines 165-215, as the new state of the manager and whether
\* the exception of the load leaves it (line 215).
LoadModelEffect(loaded, tok, mdl, load_outcome) ==
    IF loaded
    THEN [is_loaded |-> loaded, tokenizer |-> tok, model |-> mdl,
          raised |-> FALSE]
    ELSE CASE load_outcome = "ok" ->
                [is_loaded |-> TRUE, tokenizer |-> TRUE, model |-> TRUE,
                 raised |-> FALSE]
           [] load_outcome = "tokenizer_raises" ->
                [is_loaded |-> FALSE, tokenizer |-> tok, model |-> mdl,
                 raised |-> TRUE]
           [] load_outcome = "model_raises" ->
                [is_loaded |-> FALSE, tokenizer |-> TRUE, model |-> mdl,
                 raised |-> TRUE]

\* generate_field, lines 796-871, for one request: the status of the
\* answer, whether a prompt was built, and how many times the model ran.
\* count_tokens (line 823) needs the tokenizer, ModelManager.generate
\* checks is_loaded again (lines 224-225) before it runs the model.
GenerateFieldEffect(loaded, tok, run_outcome) ==
    IF RequestRefused(loaded)
    THEN [status |-> 503, prompt_built |-> FALSE, inferences |-> 0]
    ELSE IF ~tok \/ ~loaded
    THEN [status |-> 500, prompt_built |-> TRUE, inferences |-> 0]
    ELSE IF run_outcome = "raises"
    THEN [status |-> 500, prompt_built |-> TRUE, inferences |-> 1]
    ELSE [status |-> 200, prompt_built |-> TRUE, inferences |-> 1]

NoResponse ==
    [endpoint |-> "", loaded |-> FALSE, status |-> 0, prompt_built |-> FALSE,
     inferences |-> 0, errors |-> 0]

ApiOff ==
    /\ is_loaded = FALSE
    /\ tokenizer_set = FALSE
    /\ model_set = FALSE
    /\ served = 0
    /\ api_response = NoResponse
    /\ api_pc = "off"

\* ModelManager.__init__, lines 159-163.
ApiInit ==
    /\ is_loaded = FALSE
    /\ tokenizer_set = FALSE
    /\ model_set = FALSE
    /\ served = 0
    /\ api_response = NoResponse
    /\ api_pc = "init"

\* lifespan, lines 726-735: load_model is called, its exception is logged,
\* and the API serves in both cases.
Startup ==
    /\ api_pc = "init"
    /\ \E load_outcome \in LoadOutcomes :
          LET after == LoadModelEffect(is_loaded, tokenizer_set, model_set,
                                       load_outcome)
          IN  /\ is_loaded' = after.is_loaded
              /\ tokenizer_set' = after.tokenizer
              /\ model_set' = after.model
    /\ api_pc' = "serving"
    /\ UNCHANGED <<served, api_response, notApi>>

\* model_manager.load_model() called again while the API serves.
LoadModel ==
    /\ api_pc = "serving"
    /\ \E load_outcome \in LoadOutcomes :
          LET after == LoadModelEffect(is_loaded, tokenizer_set, model_set,
                                       load_outcome)
          IN  /\ is_loaded' = after.is_loaded
              /\ tokenizer_set' = after.tokenizer
              /\ model_set' = after.model
    /\ UNCHANGED <<served, api_response, api_pc, notApi>>

\* POST /generate
GenerateRequest ==
    /\ api_pc = "serving"
    /\ served < MaxRequests
    /\ \E run_outcome \in RunOutcomes :
          LET r == GenerateFieldEffect(is_loaded, tokenizer_set, run_outcome)
          IN  api_response' =
                 [endpoint |-> "generate", loaded |-> is_loaded,
                  status |-> r.status, prompt_built |-> r.prompt_built,
                  inferences |-> r.inferences, errors |-> 0]
    /\ served' = served + 1
    /\ UNCHANGED <<is_loaded, tokenizer_set, model_set, api_pc, notApi>>

\* POST /generate_multiple, lines 873-896: generate_field is called for
\* each of the first five fields, an exception of a call (the HTTPException
\* of a refusal included) goes to errors, and the answer is a 200.
GenerateMultiple ==
    /\ api_pc = "serving"
    /\ served < MaxRequests
    /\ \E n \in 1..MaxFields : \E run_outcomes \in [1..n -> RunOutcomes] :
          LET calls == [k \in 1..n |->
                           GenerateFieldEffect(is_loaded, tokenizer_set,
                                               run_outcomes[k])]
          IN  api_response' =
                 [endpoint |-> "generate_multiple", loaded |-> is_loaded,
                  status |-> 200,
                  prompt_built |-> \E k \in 1..n : calls[k].prompt_built,
                  inferences |->
                      Cardinality({ k \in 1..n : calls[k].inferences = 1 }),
                  errors |->
                      Cardinality({ k \in 1..n : calls[k].status # 200 })]
    /\ served' = served + 1
    /\ UNCHANGED <<is_loaded, tokenizer_set, model_set, api_pc, notApi>>

ApiNext == Startup \/ LoadModel \/ GenerateRequest \/ GenerateMultiple

(***************************************************************************)
(* Specifications: one per component, the other components at rest.        *)
(***************************************************************************)
InitContext == CtxInit /\ PromptOff /\ TokOff /\ DecOff /\ DaysOff /\ NumOff
    /\ RepOff /\ LoadOff /\ GenOff /\ SevOff /\ ColOff /\ PassOff /\ ApiOff
SpecContext == InitContext /\ [][CtxNext]_vars

InitPrompt == PromptInit /\ CtxOff /\ TokOff /\ DecOff /\ DaysOff /\ NumOff
    /\ RepOff /\ LoadOff /\ GenOff /\ SevOff /\ ColOff /\ PassOff /\ ApiOff
SpecPrompt == InitPrompt /\ [][PromptNext]_vars

InitTok == TokInit /\ CtxOff /\ PromptOff /\ DecOff /\ DaysOff /\ NumOff
    /\ RepOff /\ LoadOff /\ GenOff /\ SevOff /\ ColOff /\ PassOff /\ ApiOff
SpecTok == InitTok /\ [][TokNext]_vars

InitDecode == DecInit /\ CtxOff /\ PromptOff /\ TokOff /\ DaysOff /\ NumOff
    /\ RepOff /\ LoadOff /\ GenOff /\ SevOff /\ ColOff /\ PassOff /\ ApiOff
SpecDecode == InitDecode /\ [][DecNext]_vars

InitDays == DaysInit /\ CtxOff /\ PromptOff /\ TokOff /\ DecOff /\ NumOff
    /\ RepOff /\ LoadOff /\ GenOff /\ SevOff /\ ColOff /\ PassOff /\ ApiOff
SpecDays == InitDays /\ [][DaysNext]_vars

InitNumber == NumInit /\ CtxOff /\ PromptOff /\ TokOff /\ DecOff /\ DaysOff
    /\ RepOff /\ LoadOff /\ GenOff /\ SevOff /\ ColOff /\ PassOff /\ ApiOff
SpecNumber == InitNumber /\ [][NumNext]_vars

InitRepeat == CtxInit /\ RepInit /\ PromptOff /\ TokOff /\ DecOff /\ DaysOff
    /\ NumOff /\ LoadOff /\ GenOff /\ SevOff /\ ColOff /\ PassOff
    /\ ApiOff
SpecRepeat == InitRepeat /\ [][RepNext]_vars

InitLoad == LoadInit /\ CtxOff /\ PromptOff /\ TokOff /\ DecOff /\ DaysOff
    /\ NumOff /\ RepOff /\ GenOff /\ SevOff /\ ColOff /\ PassOff /\ ApiOff
SpecLoad == InitLoad /\ [][LoadNext]_vars

InitGenerate == GenInit /\ CtxOff /\ PromptOff /\ TokOff /\ DecOff /\ DaysOff
    /\ NumOff /\ RepOff /\ LoadOff /\ SevOff /\ ColOff /\ PassOff /\ ApiOff
SpecGenerate == InitGenerate /\ [][GenNext]_vars

InitSeverity == SevInit /\ CtxOff /\ PromptOff /\ TokOff /\ DecOff /\ DaysOff
    /\ NumOff /\ RepOff /\ LoadOff /\ GenOff /\ ColOff /\ PassOff /\ ApiOff
SpecSeverity == InitSeverity /\ [][SevNext]_vars

InitCollate == ColInit /\ CtxOff /\ PromptOff /\ TokOff /\ DecOff /\ DaysOff
    /\ NumOff /\ RepOff /\ LoadOff /\ GenOff /\ SevOff /\ PassOff /\ ApiOff
SpecCollate == InitCollate /\ [][ColNext]_vars

InitPreprocessing == PassInit /\ CtxOff /\ PromptOff /\ TokOff /\ DecOff
    /\ DaysOff /\ NumOff /\ RepOff /\ LoadOff /\ GenOff /\ SevOff /\ ColOff
    /\ ApiOff
SpecPreprocessing == InitPreprocessing /\ [][PassNext]_vars

InitApi == ApiInit /\ CtxOff /\ PromptOff /\ TokOff /\ DecOff /\ DaysOff
    /\ NumOff /\ RepOff /\ LoadOff /\ GenOff /\ SevOff /\ ColOff /\ PassOff
SpecApi == InitApi /\ [][ApiNext]_vars

Init == InitContext \/ InitPrompt \/ InitTok \/ InitDecode \/ InitDays
    \/ InitNumber \/ InitRepeat \/ InitLoad \/ InitGenerate \/ InitSeverity
    \/ InitCollate \/ InitPreprocessing \/ InitApi

Next == CtxNext \/ PromptNext \/ TokNext \/ DecNext \/ DaysNext \/ NumNext
    \/ RepNext \/ LoadNext \/ GenNext \/ SevNext \/ ColNext \/ PassNext
    \/ ApiNext

Spec == Init /\ [][Next]_vars

(***************************************************************************)
(* Properties.                                                             *)
(***************************************************************************)

\* C1: for every target, context and strategy, the used-field list never
\* contains the target field identifier and never holds an identifier twice.
C1_NoTargetNoDuplicate ==
    ctx_pc = "done" =>
        /\ ~Contains(used_fields, target_field)
        /\ NoDuplicates(used_fields)

\* C2: the prompt built at inference for a task and a context equals,
\* character for character, the prompt the training pipeline renders from
\* the user turn written for the same task and context.
C2_PromptsIdentical ==
    prompt_pc = {"api", "training"} => api_prompt = training_prompt

C2_Witness ==
    /\ prompt_pc = {"api", "training"}
    /\ Len(task) = MaxTextLen
    /\ Contains(prompt_context, "\n")
    /\ Len(api_prompt) > Len(task) + Len(prompt_context)

CountLearned(lab) == Cardinality({ i \in DOMAIN lab : lab[i] # IGNORE_INDEX })

\* C3: every example has input_ids, attention_mask and labels of one
\* length, at most max_length, and at most max_response_length + 1 label
\* positions that are not the sentinel -100.
C3_ExampleShape ==
    tok_pc = "done" =>
        /\ Len(input_ids) = Len(attention_mask)
        /\ Len(input_ids) = Len(labels)
        /\ Len(input_ids) <= config.max_length
        /\ CountLearned(labels) <= config.max_response_length + 1

\* The total budget cut into the prompt span and the response filled its
\* own budget.
C3_Witness ==
    /\ tok_pc = "done"
    /\ config.max_length < Len(bos_token) + Len(prompt_tokens)
    /\ Len(prompt_tokens) <= config.max_prompt_length
    /\ Len(response_tokens) > config.max_response_length
    /\ Len(labels) = config.max_length

\* C4: with the configured budgets and both marker tokens, the response
\* tokens kept in input_ids, followed by the end marker, are the response
\* truncated to its budget and the end marker, whatever the prompt length.
C4_ResponseKeepsItsBudget ==
    (/\ tok_pc = "done"
     /\ config = ModelConfig
     /\ bos_token = <<BOS>>
     /\ eos_token = <<EOS>>)
    => LET p == Min(Len(prompt_tokens), config.max_prompt_length)
       IN  Drop(input_ids, 1 + p)
             = Take(response_tokens, config.max_response_length) \o <<EOS>>

\* C5: no row decoder reachable through parse_table_content raises, whatever
\* the text and the number of columns of its lines, so that /generate never
\* answers a generated text with an error.
C5_DecodersNeverRaise ==
    dec_pc \in {"decoded", "responded"} => ~raised /\ status # 500

FallbackFields == {"phases", "jalons"}

\* C6, as stated: for phases and jalons every text, a single blank line
\* included, decodes without an exception to a non-empty list.
C6_FallbackNeverEmpty ==
    (dec_pc = "decoded" /\ request_field \in FallbackFields) =>
        ~raised /\ parsed_response.rows # <<>>

AllBlank(text) == \A i \in 1..Len(text) : IsSpace(text[i])

OneColumnLine(text) ==
    ~AllBlank(text) /\ ~Contains(text, "\n") /\ ~Contains(text, "|")

DefaultRow(f, name) ==
    IF f = "phases"
    THEN RowOf(<< StrV(name), StrV(S_description_a_definir),
                  StrV(<<"2", "0">>), StrV(<<>>), StrV(<<>>),
                  StrV(S_equipe_projet) >>)
    ELSE RowOf(<< StrV(name), StrV(S_validation), StrV(<<>>),
                  StrV(S_criteres_a_definir) >>)

\* C6, amended: for phases and jalons decoding never raises; the list is
\* empty exactly when the text holds nothing but whitespace; a text of one
\* line with a single column gives the one row made of that column and the
\* defaults.
C6_FallbackUnlessBlank ==
    (dec_pc = "decoded" /\ request_field \in FallbackFields) =>
        /\ ~raised
        /\ (parsed_response.rows = <<>>) <=> AllBlank(raw_response)
        /\ OneColumnLine(raw_response) =>
             parsed_response.rows =
                 << DefaultRow(request_field, Strip(raw_response)) >>

C6_Witness ==
    /\ dec_pc = "decoded"
    /\ request_field = "jalons"
    /\ OneColumnLine(raw_response)
    /\ Len(parsed_response.rows) = 1
    /\ parsed_response.rows[1]["col1"] = StrV(S_validation)

\* The non-empty lines among the first LineCap(f) lines of the text.
LinesConsidered(text, f) ==
    Cardinality({ i \in 1..Min(LineCap(f), Len(LinesOf(text))) :
                    ~AllBlank(LinesOf(text)[i]) })

\* C7: for every tabular field, a decoding gives as many rows as there are
\* non-empty lines within the line cap: a line with fewer columns than the
\* field's minimum is not dropped.
C7_NoLineDropped ==
    (dec_pc = "decoded" /\ request_field \in DOMAIN TABLE_FIELDS /\ ~raised)
        => Len(parsed_response.rows) = LinesConsidered(raw_response,
                                                       request_field)

\* The normalizations of column j (from 0) of field f.
SeverityColumns ==
    { <<"contraintes", 2>>, <<"risques", 1>>, <<"risques", 2>> }
DateColumns ==
    { <<"phases", 2>>, <<"phases", 3>>, <<"livrables", 2>>, <<"jalons", 2>> }
NumberColumns ==
    { <<f, j>> : f \in {"coutsConstruction", "coutsFonctionnement"},
                 j \in 1..3 }

Normalized(f, j, v) ==
    {v} \cup (IF <<f, j>> \in SeverityColumns
              THEN { map_criticality(v), map_probability(v), map_impact(v) }
              ELSE {})
        \cup (IF <<f, j>> \in DateColumns THEN { extract_date(v) } ELSE {})
        \cup (IF <<f, j>> \in NumberColumns
              THEN { IntText(extract_number(v)) } ELSE {})

\* C8: decoding the line that format_table_for_context writes for a
\* well-formed row of a tabular field gives exactly one row, whose value in
\* every schema column is the original one up to the field's normalization.
C8_RoundTrip ==
    (dec_pc = "decoded" /\ source_rows # <<>>) =>
        /\ ~raised
        /\ Len(parsed_response.rows) = 1
        /\ \A j \in 0..(Len(TABLE_FIELDS[request_field]) - 1) :
             /\ ColKey(j) \in DOMAIN parsed_response.rows[1]
             /\ parsed_response.rows[1][ColKey(j)] \in
                    { StrV(t) : t \in Normalized(request_field, j,
                                    source_rows[1][ColKey(j)].s) }

\* C9: every decoded row of a tabular field has exactly the keys col0 ..
\* col(k-1) for the k columns the schema registry declares for the field,
\* and every value is a string.
C9_RowShape ==
    (dec_pc = "decoded" /\ request_field \in DOMAIN TABLE_FIELDS) =>
        \A r \in 1..Len(parsed_response.rows) :
            /\ DOMAIN parsed_response.rows[r] =
                   { ColKey(j) :
                       j \in 0..(Len(TABLE_FIELDS[request_field]) - 1) }
            /\ \A k \in DOMAIN parsed_response.rows[r] :
                   parsed_response.rows[r][k].kind = "str"

\* Monday-to-Friday days among the days 1..n, day 1 being a Monday.
WeekdaysUpTo(n) == 5 * (n \div 7) + Min(n % 7, 5)

\* Monday-to-Friday days of the inclusive range a..b.
WeekdaysIn(a, b) ==
    IF a > b THEN 0 ELSE WeekdaysUpTo(b) - WeekdaysUpTo(a - 1)

\* C10: for two parsable dates the result is the number of Monday-to-Friday
\* days of the inclusive range, 1 when there is none; for a pair with an
\* unparseable date it is 20.
C10_BusinessDays ==
    days_pc = "done" =>
        days_result =
            IF ParseDate(days_start).ok /\ ParseDate(days_end).ok
            THEN Max(1, WeekdaysIn(ParseDate(days_start).ord,
                                   ParseDate(days_end).ord))
            ELSE DEFAULT_DAYS

\* What one character becomes: removed, expanded, or kept.
Expanded(c) ==
    IF c \in {" ", ",", "€"} THEN <<>>
    ELSE IF c = "k" THEN <<"0", "0", "0">>
    ELSE <<c>>

\* The text with every character replaced in one pass.
RECURSIVE Cleaned(_)
Cleaned(text) ==
    IF text = <<>> THEN <<>>
    ELSE Cleaned(SubSeq(text, 1, Len(text) - 1)) \o Expanded(text[Len(text)])

RECURSIVE Power10(_)
Power10(n) == IF n = 0 THEN 1 ELSE 10 * Power10(n - 1)

\* The decimal value of t[i..j], by the weights of its positions.
RECURSIVE RunValue(_, _, _)
RunValue(t, i, j) ==
    IF i > j THEN 0
    ELSE DigitValue(t[i]) * Power10(j - i) + RunValue(t, i + 1, j)

\* The value of the first maximal run of digits of t, 0 without a digit.
FirstRunValue(t) ==
    IF \A k \in 1..Len(t) : ~IsDigit(t[k]) THEN 0
    ELSE LET i == CHOOSE k \in 1..Len(t) :
                    IsDigit(t[k]) /\ \A n \in 1..(k - 1) : ~IsDigit(t[n])
             j == CHOOSE k \in i..Len(t) :
                    /\ \A n \in i..k : IsDigit(t[n])
                    /\ (k = Len(t) \/ ~IsDigit(t[k + 1]))
         IN  RunValue(t, i, j)

AlwaysPresent(context) ==
    { f \in Range(ALWAYS_INCLUDED) :
        f \in DOMAIN context /\ Truthy(context[f]) }

\* C12: under the minimal strategy the number of used fields is at most
\* the number of always-included fields included from the context, plus 2.
C12_MinimalCount ==
    (ctx_pc = "done" /\ complexity = "minimal") =>
        Len(used_fields) <=
            Cardinality(AlwaysPresent(
                map_frontend_to_model_fields(frontend_context))) + 2

C12_Witness ==
    /\ ctx_pc = "done"
    /\ complexity = "minimal"
    /\ AlwaysPresent(map_frontend_to_model_fields(frontend_context)) # {}
    /\ Len(used_fields) =
          Cardinality(AlwaysPresent(
              map_frontend_to_model_fields(frontend_context))) + 2

InOrderOf(s, ref) == s = SelectSeq(ref, LAMBDA f : Contains(s, f))

\* A field neither the target, nor of the truncated relevant list, nor used.
ExtraPool(target, relevant, used) ==
    SelectSeq(FIELD_GENERATION_ORDER,
              LAMBDA f : f # target /\ ~Contains(relevant, f)
                                    /\ ~Contains(used, f))

\* The used-field list is det followed by at most one extra field, the
\* one the state r of the random source selects.
OneExtra(used, det, context, relevant, target, r) ==
    /\ Take(used, Len(det)) = det
    /\ \E k \in 0..Len(det) :
          /\ InOrderOf(Take(det, k), ALWAYS_INCLUDED)
          /\ InOrderOf(Drop(det, k), relevant)
    /\ \A i \in DOMAIN det : det[i] \in DOMAIN context
    /\ Len(used) <= Len(det) + 1
    /\ Len(used) = Len(det) + 1 =>
          /\ used[Len(used)] \in DOMAIN context
          /\ used[Len(used)] # target
          /\ ~Contains(relevant, used[Len(used)])
          /\ ~Contains(det, used[Len(used)])
          /\ used[Len(used)] =
                ExtraPool(target, relevant, det)[
                    RandBelow(r, Len(ExtraPool(target, relevant, det))) + 1]

MediumOneExtra(target, context, cx, used, r) ==
    OneExtra(used, Deterministic(target, context, cx).used, context,
             Take(RelevantOf(target), 3), target, r)

RoleOf(msg) ==
    IF msg.kind = "object" /\ HasKey(msg, "role") THEN Member(msg, "role")
    ELSE JNull
ContentOf(msg) ==
    IF msg.kind = "object" /\ HasKey(msg, "content")
    THEN Member(msg, "content") ELSE JNull

\* Exactly two messages, of a user and of an assistant whose content is a
\* text between the two markers.
TwoMessages(ms) ==
    /\ ms.kind = "list"
    /\ Len(ms.items) = 2
    /\ RoleOf(ms.items[1]) = JString(S_user)
    /\ RoleOf(ms.items[2]) = JString(S_assistant)
    /\ ContentOf(ms.items[2]).kind = "string"
    /\ StartsWith(ContentOf(ms.items[2]).text, S_START)
    /\ EndsWith(ContentOf(ms.items[2]).text, S_END)

WellFormedLine(line) ==
    /\ line.kind = "object"
    /\ HasKey(line, "messages")
    /\ TwoMessages(Member(line, "messages"))

C17_LabelMask ==
    tok_pc = "done" =>
        LET span == Len(bos_token)
                    + Min(Len(prompt_tokens), config.max_prompt_length)
        IN  /\ DOMAIN labels = DOMAIN input_ids
            /\ DOMAIN attention_mask = DOMAIN input_ids
            /\ \A i \in DOMAIN input_ids :
                  /\ attention_mask[i] = 1
                  /\ i <= span => labels[i] = IGNORE_INDEX
                  /\ i > span => labels[i] = input_ids[i]

\* The total budget cut the sequence, after the prompt span and inside it.
C17_Witness ==
    /\ tok_pc = "done"
    /\ bos_token = <<BOS>>
    /\ Len(bos_token) + Len(prompt_tokens) + Len(response_tokens)
          + Len(eos_token) > config.max_length
    /\ Len(prompt_tokens) > config.max_prompt_length
    /\ Len(input_ids) = config.max_length
    /\ labels[1] = IGNORE_INDEX
    /\ labels[Len(labels)] = input_ids[Len(input_ids)]

\* The lines of a text that are not blank.
NonBlankLines(content) ==
    SelectSeq(Split(content, "\n"), LAMBDA ln : Strip(ln) # <<>>)

\* C18: each row decoder keeps the non-empty lines and only then applies
\* its cap N: for a text of at least N well-formed non-empty lines, with or
\* without blank lines between them, the output has exactly N rows, the
\* k-th being the row of the k-th non-empty line; and no output has more
\* than N rows.
C18_CapAfterBlankLines ==
    (dec_pc = "decoded" /\ request_field \in DOMAIN TABLE_FIELDS) =>
        /\ Len(parsed_response.rows) <= LineCap(request_field)
        /\ (/\ Len(NonBlankLines(raw_response)) >= LineCap(request_field)
            /\ Range(NonBlankLines(raw_response))
                  \subseteq WellFormedLines(request_field)) =>
              /\ Len(parsed_response.rows) = LineCap(request_field)
              /\ \A k \in 1..LineCap(request_field) :
                    <<parsed_response.rows[k]>> =
                        DecodeLines(request_field,
                            <<NonBlankLines(raw_response)[k]>>).rows

\* A block of the field: its identifier, then ':'.
HasBlockOf(parts, f) ==
    \E i \in DOMAIN parts :
        Take(parts[i], Len(FieldText(f)) + 1) = FieldText(f) \o <<":">>

\* C19: for every target and strategy, every always-included field whose
\* key is in the caller's context after the renaming, whatever its value
\* (an empty string and 0 included), is in the used-field list and has a
\* block in the context text.
C19_AlwaysIncludedWhenPresent ==
    ctx_pc = "done" =>
        \A i \in DOMAIN ALWAYS_INCLUDED :
            ALWAYS_INCLUDED[i] \in
                DOMAIN map_frontend_to_model_fields(frontend_context) =>
                    /\ Contains(used_fields, ALWAYS_INCLUDED[i])
                    /\ HasBlockOf(context_parts, ALWAYS_INCLUDED[i])

\* used is always-included fields in their order, then fields of the
\* truncated relevant list in ranked order, then fields of neither list.
ThreeParts(used, relevant, target) ==
    \E a \in 0..Len(used) : \E b \in a..Len(used) :
        /\ InOrderOf(Take(used, a), ALWAYS_INCLUDED)
        /\ InOrderOf(SubSeq(used, a + 1, b), relevant)
        /\ \A i \in (b + 1)..Len(used) :
              /\ ~Contains(ALWAYS_INCLUDED, used[i])
              /\ ~Contains(relevant, used[i])
              /\ Contains(FIELD_GENERATION_ORDER, used[i])
              /\ used[i] # target

\* One block per used field, in the order of the used fields.
BlockPerField(parts, used) ==
    /\ Len(parts) = Len(used)
    /\ \A i \in DOMAIN used :
          Take(parts[i], Len(FieldText(used[i])) + 1)
              = FieldText(used[i]) \o <<":">>

\* The length the relevant list is cut to: 2, 3 for medium / related, 2.
TruncatedTo(cx) == IF cx \in {"medium", "related"} THEN 3 ELSE 2

\* C20: for every target, context and strategy the blocks that the context
\* text joins with newlines are exactly one per used field, in the order
\* of the used-field list, the i-th block starting with the i-th
\* identifier and ':'; and that order is: always-included fields in their
\* fixed order, then fields of the truncated relevant list in ranked
\* order, then the fields chosen at random.
C20_BlocksFollowUsedFields ==
    ctx_pc = "done" =>
        /\ BlockPerField(context_parts, used_fields)
        /\ ThreeParts(used_fields,
                      Take(RelevantOf(target_field), TruncatedTo(complexity)),
                      target_field)

\* The three parts are there, and a block of two lines among them.
C20_Witness ==
    /\ ctx_pc = "done"
    /\ complexity = "full"
    /\ Len(used_fields) = 3
    /\ Contains(ALWAYS_INCLUDED, used_fields[1])
    /\ Contains(Take(RelevantOf(target_field), 2), used_fields[2])
    /\ ~Contains(Take(RelevantOf(target_field), 2), used_fields[3])
    /\ Contains(context_parts[3], "\n")
    /\ Len(context_str) > Len(context_parts[1]) + Len(context_parts[2])

\* The candidate fields that are in the context.
CandidatesPresent(target, context, used) ==
    { f \in Range(ExtraPool(target, Take(RelevantOf(target), 2), used)) :
        f \in DOMAIN context }

\* Between 3 and 5 fields follow the deterministic part det.
ThreeToFive(used, det) == Len(used) - Len(det) \in 3..5

\* C21: under the full strategy, whenever at least five candidate fields
\* (fields of the generation order other than the target, not in the
\* truncated relevant list and not already used) are in the context, the
\* number of fields appended after the relevant ones is between 3 and 5.
C21_FullAppendsThreeToFive ==
    (/\ ctx_pc = "done"
     /\ complexity = "full"
     /\ Cardinality(CandidatesPresent(target_field,
            map_frontend_to_model_fields(frontend_context),
            Deterministic(target_field,
                map_frontend_to_model_fields(frontend_context),
                "full").used)) >= 5) =>
        ThreeToFive(used_fields,
                    Deterministic(target_field,
                        map_frontend_to_model_fields(frontend_context),
                        "full").used)

\* C22: for every tabular field of the registry (the seven keys of
\* TABLE_FIELDS, phases among them) and for the alias lots, /generate hands
\* the generated text to the row decoder of the field and answers with a
\* list of rows as value, never with the raw text.
C22_TabularFieldsDecoded ==
    (/\ dec_pc = "responded"
     /\ request_field \in DOMAIN TABLE_FIELDS \cup {"lots"}
     /\ status = 200) =>
        /\ parsed_response.kind = "list"
        /\ parsed_response.rows =
              parse_table_content(raw_response,
                  IF request_field = "lots" THEN "phases"
                  ELSE request_field).rows

\* The columns of the only line of a one-line text.
OnlyLineParts(content) == PartsOf(LinesOf(content)[1])

\* The row the documented column order of a phases line describes.
DocumentedPhase(row, parts) ==
    /\ row["col0"] = StrV(parts[1])
    /\ row["col1"] = StrV(parts[2])
    /\ row["col2"] = StrV(IntText(calculate_days_between_dates(parts[4],
                                                                parts[5])))
    /\ row["col3"] = StrV(parts[4])
    /\ row["col4"] = StrV(parts[5])
    /\ row["col5"] = StrV(parts[6])

\* C23: a phases line in the documented six-column format
\* Phase|Description|Duree|Date debut|Date fin|Equipes decodes to a row with
\* col0 the phase, col1 the description, col3 the fourth column (start
\* date), col4 the fifth column (end date), col5 the sixth column (teams)
\* and col2 the business-day duration between those two dates.
C23_DocumentedPhaseColumns ==
    (/\ dec_pc = "decoded"
     /\ request_field = "phases"
     /\ raw_response \in DocumentedLines("phases")) =>
        /\ ~raised
        /\ Len(parsed_response.rows) = 1
        /\ DocumentedPhase(parsed_response.rows[1],
                           OnlyLineParts(raw_response))

\* The total of a cost row as the product of the two extracted numbers, as
\* the text str() gives for an integer or as the float of the product.
DerivedTotal(total, parts) ==
    total \in { StrV(IntText(extract_number(parts[2])
                              * extract_number(parts[3]))),
                FloatV(12 * extract_number(parts[2])
                          * extract_number(parts[3])) }

\* C24: a cost line of at least three columns decodes to a row whose total
\* (col3) is the product of the numbers extracted from the second and third
\* columns, for coutsConstruction and for coutsFonctionnement; the total
\* written in the line is not copied.
C24_CostTotalIsDerived ==
    (/\ dec_pc = "decoded"
     /\ request_field \in {"coutsConstruction", "coutsFonctionnement"}
     /\ raw_response \in DocumentedLines(request_field)) =>
        /\ ~raised
        /\ Len(parsed_response.rows) = 1
        /\ DerivedTotal(parsed_response.rows[1]["col3"],
                        OnlyLineParts(raw_response))

\* The first position after position i where a marker starts, or the
\* position after the text when no marker follows.
NextMarker(text, i) ==
    LET after == { p \in OccurrencesOf(text, S_START)
                         \cup OccurrencesOf(text, S_END) : p > i }
    IN  IF after = {} THEN Len(text) + 1
        ELSE CHOOSE p \in after : \A q \in after : p <= q

\* The text that follows the first start marker, up to the next marker.
AfterFirstStart(text) ==
    LET at == OccurrencesOf(text, S_START)
        i  == CHOOSE p \in at : \A q \in at : p <= q
    IN  SubSeq(text, i + Len(S_START), NextMarker(text, i) - 1)

BothMarkers(text) == HasWord(text, S_START) /\ HasWord(text, S_END)

\* C25 as stated: with both markers in the generated text the value is
\* exactly the text between a start marker and an end marker, nothing
\* added, removed or trimmed; with a marker missing it is the whole text.
C25_ExactlyBetweenMarkers ==
    gen_pc = "returned" =>
        IF BothMarkers(gen_response)
        THEN \E i \in OccurrencesOf(gen_response, S_START),
                j \in OccurrencesOf(gen_response, S_END) :
                /\ i + Len(S_START) <= j
                /\ gen_content = SubSeq(gen_response, i + Len(S_START), j - 1)
        ELSE gen_content = gen_response

\* C25: with both markers in the generated text the value is the text
\* that follows the first start marker up to the next marker (or the end of
\* the text), with the whitespace at both ends removed; with a marker
\* missing it is the whole text as it is.  No text makes the extraction
\* raise: every text gets a value.
C25_StrippedBetweenMarkers ==
    gen_pc = "returned" =>
        IF BothMarkers(gen_response)
        THEN gen_content = Strip(AfterFirstStart(gen_response))
        ELSE gen_content = gen_response

C25_Witness ==
    /\ gen_pc = "returned"
    /\ gen_response = S_START \o <<" ", "a">> \o S_END
    /\ gen_content = <<"a">>

\* The closed set of a mapper: its low, middle and high categories.
CategoriesOf(mapper) ==
    IF mapper = "probability"
    THEN [low |-> <<"F","a","i","b","l","e">>,
          middle |-> <<"M","o","y","e","n","n","e">>,
          high |-> <<"É","l","e","v","é","e">>]
    ELSE [low |-> <<"F","a","i","b","l","e">>,
          middle |-> <<"M","o","y","e","n">>,
          high |-> <<"É","l","e","v","é">>]

\* The high keywords of a mapper.
HighWordsOf(mapper) ==
    CASE mapper = "criticality" -> HighWords \cup {W_critique}
      [] mapper = "probability" -> HighWords
      [] mapper = "impact"      -> HighWords \cup {W_majeur}

\* The category the keywords found in the lower-cased text ask for.
CategoryFor(cats, lowered, high) ==
    IF \E w \in LowWords : HasWord(lowered, w) THEN cats.low
    ELSE IF \E w \in high : HasWord(lowered, w) THEN cats.high
    ELSE cats.middle

\* C26: each of the three mappers returns one of the three categories of
\* its closed set, finds its keywords as substrings of the lower-cased
\* text whatever the case of the input, returns the middle category exactly
\* when no low and no high keyword occurs in the lower-cased text, and
\* returns the same category when applied to its own result.
C26_SeverityMappers ==
    /\ sev_pc \in {"mapped", "remapped"} =>
          /\ sev_result \in { CategoriesOf(sev_mapper).low,
                              CategoriesOf(sev_mapper).middle,
                              CategoriesOf(sev_mapper).high }
          /\ sev_result = CategoryFor(CategoriesOf(sev_mapper),
                                      Lower(sev_text),
                                      HighWordsOf(sev_mapper))
          /\ (sev_result = CategoriesOf(sev_mapper).middle) <=>
                ~\E w \in LowWords \cup HighWordsOf(sev_mapper) :
                     HasWord(Lower(sev_text), w)
    /\ sev_pc = "remapped" => sev_again = sev_result

C26_Witness ==
    /\ sev_pc = "remapped"
    /\ sev_mapper = "criticality"
    /\ sev_text = <<"x">> \o <<"H","I","G","H">>
    /\ sev_result = <<"É","l","e","v","é">>
    /\ sev_again = <<"É","l","e","v","é">>

\* Every row of the list has length n.
AllOfLength(rows, n) == \A i \in DOMAIN rows : Len(rows[i]) = n

\* n is the smallest multiple of multiple that is at least longest.
SmallestMultiple(n, multiple, longest) ==
    /\ n % multiple = 0
    /\ n >= longest
    /\ n - multiple < longest

\* The padded row starts with the original row and holds the filler at
\* every position after it.
PaddedFrom(padded, original, filler) ==
    /\ Len(padded) >= Len(original)
    /\ SubSeq(padded, 1, Len(original)) = original
    /\ \A k \in (Len(original) + 1)..Len(padded) : padded[k] = filler

\* C27: for a non-empty batch the collator returns input_ids,
\* attention_mask and labels rows of one length L, the smallest multiple of
\* pad_to_multiple_of that is at least the longest input_ids of the batch;
\* each row starts with its original values and holds the pad token id
\* (input_ids), 0 (attention_mask) and -100 (labels) in its padding.
C27_CollatorPadding ==
    col_pc = "done" =>
        /\ Len(batch.ids) = Len(features)
        /\ Len(batch.mask) = Len(features)
        /\ Len(batch.labs) = Len(features)
        /\ AllOfLength(batch.ids, Len(batch.ids[1]))
        /\ AllOfLength(batch.mask, Len(batch.ids[1]))
        /\ AllOfLength(batch.labs, Len(batch.ids[1]))
        /\ SmallestMultiple(Len(batch.ids[1]), pad_to_multiple_of,
                            LongestOf(features))
        /\ \A i \in DOMAIN features :
              /\ PaddedFrom(batch.ids[i], features[i].ids, pad_token_id)
              /\ PaddedFrom(batch.mask[i], features[i].mask, 0)
              /\ PaddedFrom(batch.labs[i], features[i].labs, -100)

C27_Witness ==
    /\ col_pc = "done"
    /\ pad_to_multiple_of = 8
    /\ Len(features) = 2
    /\ Len(features[1].ids) = 3
    /\ Len(features[2].ids) = 1
    /\ batch.ids[2] = <<11, 2, 2, 2, 2, 2, 2, 2>>
    /\ batch.labs[2] = <<-100, -100, -100, -100, -100, -100, -100, -100>>

\* The positions of the dataset whose example has been given an index.
PositionsDone(pairs) == { pairs[k][1] : k \in DOMAIN pairs }

\* C28: in each preprocessing pass (train, validation) no two executions of
\* preprocess_function overlap; the counter is 0 when the pass begins and,
\* between two batches, the sum of the sizes of the batches executed; every
\* example receives an index equal to its position in the dataset, so no
\* two examples share an index; and the verbose diagnostics are emitted for
\* exactly the first min(3, n) examples of the dataset.
C28_CounterSequential ==
    pass_pc \in {"train", "validation", "between", "finished"} =>
        /\ Cardinality(running) <= 1
        /\ (next_start = 0 /\ running = {}) => processed = 0
        /\ running = {} => processed = next_start
        /\ \A e \in running : processed = e.start
        /\ \A k \in DOMAIN assigned : assigned[k][2] = assigned[k][1]
        /\ \A j, k \in DOMAIN assigned :
              assigned[j][2] = assigned[k][2] => j = k
        /\ diagnosed = { p \in PositionsDone(assigned) : p < 3 }
        /\ pass_pc \in {"between", "finished"} =>
              /\ Len(assigned) =
                    dataset_sizes[IF pass_pc = "between" THEN 1 ELSE 2]
              /\ processed = Len(assigned)
              /\ diagnosed = 0..(Min(3, Len(assigned)) - 1)

C28_Witness ==
    /\ pass_pc = "finished"
    /\ dataset_sizes = <<4, 3>>
    /\ batch_size = 2
    /\ processed = 3
    /\ assigned = << <<0, 0>>, <<1, 1>>, <<2, 2>> >>
    /\ diagnosed = {0, 1, 2}

\* The masked prompt span of a training example: the tokens whose label is
\* the ignore index.
MaskedSpan(ids, labs) ==
    SubSeq(ids, 1, Cardinality({ i \in DOMAIN labs : labs[i] = IGNORE_INDEX }))

\* C29: under the configured budgets, for every prompt, the token sequence
\* the inference path feeds the model (special tokens enabled, truncation
\* to 1024) equals the masked prompt span the training pipeline builds for
\* the same prompt (beginning marker, then the prompt tokenized without
\* special tokens and cut to the prompt budget 1024), prompts that reach
\* or exceed the budget included.
C29_PromptSpanMatches ==
    (/\ tok_pc = "done"
     /\ inf_pc = "done"
     /\ config = ModelConfig) =>
        inference_ids = MaskedSpan(input_ids, labels)

\* What holds in every state: the manager starts unloaded, a loaded manager
\* holds its tokenizer and its model, no request ran the model while the
\* manager was not loaded, and a /generate received in that state was
\* answered 503 before any prompt was built.
NoInferenceUnloaded ==
    /\ api_pc = "init" => ~is_loaded
    /\ is_loaded => tokenizer_set /\ model_set
    /\ api_response.inferences > 0 => api_response.loaded
    /\ (api_response.endpoint = "generate" /\ ~api_response.loaded) =>
          /\ api_response.status = 503
          /\ ~api_response.prompt_built
          /\ api_response.inferences = 0
    /\ (api_response.endpoint = "generate_multiple"
        /\ ~api_response.loaded) =>
          /\ ~api_response.prompt_built
          /\ api_response.inferences = 0

\* What holds of every step: is_loaded never returns to false, only a load
\* (at startup or later) makes it true, and a step of a loaded manager
\* leaves the tokenizer and the model as they are.
LoadedForGood ==
    /\ is_loaded => is_loaded'
    /\ (~is_loaded /\ is_loaded') =>
          /\ served' = served
          /\ api_response' = api_response
          /\ tokenizer_set' /\ model_set'
    /\ is_loaded =>
          /\ tokenizer_set' = tokenizer_set
          /\ model_set' = model_set

\* C30: in every sequence of startup, load_model, /generate and
\* /generate_multiple, the model is never run while it is not loaded:
\* is_loaded starts false, becomes true only when a load completes, never
\* returns to false; load_model on a loaded manager changes nothing; after
\* a failed load at startup the API serves with is_loaded false and answers
\* every /generate with 503, without building a prompt or calling the
\* model.
C30_NoInferenceBeforeLoad == []NoInferenceUnloaded /\ [][LoadedForGood]_vars

C30_Witness ==
    /\ api_pc = "serving"
    /\ ~is_loaded
    /\ tokenizer_set
    /\ served = 2
    /\ api_response.endpoint = "generate"
    /\ api_response.status = 503

====
